---- MODULE Spec2Model ----
(***************************************************************************)
(* A model of python-oci-packager: the content-addressed cache             *)
(* (src/src/cache.rs), the layer builder (src/src/layer.rs), the manifest  *)
(* (src/src/manifest.rs) and the build orchestrator (src/src/builder.rs).  *)
(*                                                                         *)
(* Conventions                                                             *)
(*  - a byte string is a sequence of small naturals;                       *)
(*  - text that the code only splits on '/' and ':' (image references,     *)
(*    cache keys) is a sequence of one-character strings;                  *)
(*  - a digest string is a record [pfx, hex]: the text before the hex      *)
(*    digits and the digits; "sha256:<hex>" is [pfx |-> "sha256:", ...];   *)
(*  - SHA-256 is an ideal hash: deterministic and collision free on the    *)
(*    modelled byte strings (Sha256Hex).                                   *)
(***************************************************************************)
EXTENDS Integers, Sequences, FiniteSets, TLC

VARIABLES
    \* ---- Cache (src/src/cache.rs:12-17) and the cache directory on disk
    cache_dir,      \* Cache.cache_dir
    layer_index,    \* Cache.layer_index : key -> LayerCacheEntry
    config_index,   \* Cache.config_index : key -> ConfigCacheEntry
    binFiles,       \* <dir>/layer_<digest>.bin : path -> bytes
    jsonFiles,      \* <dir>/config_<key>.json  : path -> ImageConfig (as JSON)
    indexFiles,     \* <dir>/index.json         : dir  -> persisted Cache
    \* ---- history of the calls made on the Cache
    last,           \* the most recent Cache call and what it returned
    ncalls,         \* number of Cache calls made so far
    \* ---- PythonImageBuilder (src/src/builder.rs:129-135) and one build
    base_image,     \* PythonImageBuilder.base_image
    nbuild,         \* number of builds started
    pc,             \* where build stands
    tmp_dir,        \* the temporary build directory: "none" before it is made,
                    \* "exists", "removed", or "left" when its removal failed
    reg,            \* the locals of pull_base_image and the requests it made
    base,           \* the BaseImage pull_base_image returned
    tasks,          \* the three layer builds of try_join!: how far each is, its
                    \* BuildOutput, and its place in the order of completion
    out,            \* the output directory: blobs, manifest.json, oci-layout
    manifest,       \* the Manifest create_manifest returned
    trace,          \* the stages of this build that ended, each with its outcome
    result,         \* what build returned
    pulled          \* whether a pull stored layer and config: "no", "this" build, "before"

cacheVars == <<cache_dir, layer_index, config_index, binFiles, jsonFiles,
               indexFiles>>

histVars == <<last, ncalls>>

buildVars == <<base_image, nbuild, pc, tmp_dir, reg, base, tasks, out,
               manifest, trace, result, pulled>>

vars == <<cacheVars, histVars, buildVars>>

-----------------------------------------------------------------------------
(* Bounds of the model *)

\* largest reading of the system clock
MaxClock == 1
\* number of Cache calls in one behaviour
MaxCalls == 3
\* number of builds run one after the other on one cache directory
MaxBuilds == 2
\* largest number of layers in a base image's manifest
MaxBlobs == 1
\* largest number of entries in an image index
MaxEntries == 2
\* longest image reference handed to parse_image_reference, in characters
\* (a name counts as one)
MaxRefLen == 7
\* largest number of files in a directory handed to Layer::from_dir
MaxFiles == 2
\* largest number of layers in a manifest handed to
\* download_and_process_layers on its own
MaxLayers == 3

-----------------------------------------------------------------------------
(* Text and bytes *)

EmptyFn == [x \in {} |-> 0]

\* the two media types verification accepts, and one it does not
MediaTar == "application/vnd.oci.image.layer.v1.tar"
MediaTarGzip == "application/vnd.oci.image.layer.v1.tar+gzip"
MediaDocker == "application/vnd.docker.image.rootfs.diff.tar.gzip"
MediaTypes == <<MediaTar, MediaTarGzip, MediaDocker>>

\* the texts a digest string can start with, "sha256:" among them
Prefixes == <<"", "sha256:", "md5:">>

IndexOf(seq, x) == CHOOSE i \in 1..Len(seq) : seq[i] = x

\* hex(sha256(bytes)): an ideal hash, injective on byte strings and never the
\* empty text
Sha256Hex(bytes) == <<Len(bytes)>> \o bytes

\* format!("sha256:{:x}", hasher.finalize())
Sha256Digest(bytes) == [pfx |-> "sha256:", hex |-> Sha256Hex(bytes)]

\* the empty String
EmptyStr == [pfx |-> "", hex |-> <<>>]

\* str::starts_with("sha256:")
StartsWithSha256(d) == d.pfx = "sha256:"

\* str::trim_start_matches("sha256:")
TrimSha256(d) == IF d.pfx = "sha256:" THEN [pfx |-> "", hex |-> d.hex] ELSE d

-----------------------------------------------------------------------------
(* Layer (src/src/layer.rs) *)

NoLayer == [none |-> TRUE]

MkLayer(mt, dg, sz, csz, data, diff, ann) ==
    [media_type |-> mt, digest |-> dg, size |-> sz, compressed_size |-> csz,
     data |-> data, diff_id |-> diff, annotations |-> ann]

\* bincode of a String: its length, then its content
EncStr(d) == <<IndexOf(Prefixes, d.pfx), Len(d.hex)>> \o d.hex

\* bincode::serialize(layer): the fields in declaration order, each
\* variable-length field behind its length
SerializeLayer(l) ==
    <<IndexOf(MediaTypes, l.media_type)>>
    \o EncStr(l.digest)
    \o <<l.size, l.compressed_size>>
    \o <<Len(l.data)>> \o l.data
    \o EncStr(l.diff_id)
    \o <<Len(l.annotations)>> \o l.annotations

SubSeqFrom(s, i, n) == IF n = 0 THEN <<>> ELSE SubSeq(s, i, i + n - 1)

\* bincode::deserialize(bytes).ok(): NoLayer when the bytes are no Layer
DeserializeLayer(b) ==
    IF Len(b) < 3 \/ b[1] \notin 1..Len(MediaTypes) \/ b[2] \notin 1..Len(Prefixes)
       \/ b[3] < 0
    THEN NoLayer
    ELSE
    LET n1 == b[3]
        p == 4 + n1              \* size
    IN IF Len(b) < p + 2 \/ b[p + 2] < 0 THEN NoLayer ELSE
    LET nd == b[p + 2]
        q == p + 3 + nd          \* diff_id
    IN IF Len(b) < q + 1 \/ b[q] \notin 1..Len(Prefixes) \/ b[q + 1] < 0
       THEN NoLayer ELSE
    LET n2 == b[q + 1]
        r == q + 2 + n2          \* annotations
    IN IF Len(b) < r \/ b[r] < 0 \/ Len(b) # r + b[r] THEN NoLayer ELSE
       MkLayer(MediaTypes[b[1]],
               [pfx |-> Prefixes[b[2]], hex |-> SubSeqFrom(b, 4, n1)],
               b[p], b[p + 1],
               SubSeqFrom(b, p + 3, nd),
               [pfx |-> Prefixes[b[q]], hex |-> SubSeqFrom(b, q + 2, n2)],
               SubSeqFrom(b, r + 1, b[r]))

-----------------------------------------------------------------------------
(* Cache (src/src/cache.rs) *)

\* cache_dir.join(format!("layer_{}.bin", layer.digest))
LayerPath(dir, digest) == [dir |-> dir, layer |-> digest]

\* cache_dir.join(format!("config_{}.json", key))
ConfigPath(dir, key) == [dir |-> dir, config |-> key]

\* what serde_json::to_string_pretty(&self) keeps of the Cache and
\* serde_json::from_slice gives back (dependency_index is never written to)
PersistedCache(dir, li, ci) ==
    [cache_dir |-> dir, layer_index |-> li, config_index |-> ci]

\* ImageConfig::default()
DefaultImageConfig ==
    [env |-> <<>>, cmd |-> <<>>, working_dir |-> "", entrypoint |-> <<>>]

\* Fresh with the age compared one unit too generously
FreshOffByOne(now, timestamp, max_age) ==
    now >= timestamp /\ now - timestamp <= max_age + 1

\* now.duration_since(entry.timestamp) is Ok(age) with age <= max_age
Fresh(now, timestamp, max_age) == now >= timestamp /\ now - timestamp <= max_age

\* HashMap::retain of cleanup, for either index
Retain(index, now, max_age) ==
    [k \in {x \in DOMAIN index : Fresh(now, index[x].timestamp, max_age)}
        |-> index[k]]

\* HashMap::insert
Insert(index, key, entry) ==
    [k \in DOMAIN index \cup {key} |-> IF k = key THEN entry ELSE index[k]]

\* removal of a set of paths from a family of files
RemoveFiles(files, gone) == [p \in DOMAIN files \ gone |-> files[p]]

\* Cache::get_layer: the cached Layer, or NoLayer for None
get_layer(key) ==
    IF key \notin DOMAIN layer_index THEN NoLayer
    ELSE LET entry == layer_index[key] IN
         IF entry.path \notin DOMAIN binFiles THEN NoLayer
         ELSE LET data == binFiles[entry.path] IN
              IF Sha256Digest(data) = entry.digest
              THEN DeserializeLayer(data)
              ELSE NoLayer

NoConfig == [none |-> TRUE]

\* Cache::get_config: the cached ImageConfig, or NoConfig for None
get_config(key) ==
    IF key \notin DOMAIN config_index THEN NoConfig
    ELSE LET entry == config_index[key] IN
         IF entry.path \notin DOMAIN jsonFiles THEN NoConfig
         ELSE jsonFiles[entry.path]

\* Cache::save_index, when its write succeeds
save_index(li, ci) ==
    indexFiles' = [d \in DOMAIN indexFiles \cup {cache_dir} |->
                      IF d = cache_dir THEN PersistedCache(cache_dir, li, ci)
                      ELSE indexFiles[d]]

StoreOutcomes == {"Ok", "ErrWrite", "ErrSaveIndex"}

\* Cache::store_layer; now is what SystemTime::now() reads, outcome says which
\* of its two writes fails, if any
store_layer(key, layer, metadata, now, outcome) ==
    LET layer_path == LayerPath(cache_dir, layer.digest)
        layer_data == SerializeLayer(layer)
        entry == [digest |-> layer.digest, path |-> layer_path,
                  timestamp |-> now, metadata |-> metadata]
    IN /\ outcome \in StoreOutcomes
       /\ IF outcome = "ErrWrite"
          THEN UNCHANGED <<binFiles, layer_index, indexFiles>>
          ELSE /\ binFiles' = [p \in DOMAIN binFiles \cup {layer_path} |->
                                 IF p = layer_path THEN layer_data ELSE binFiles[p]]
               /\ layer_index' = Insert(layer_index, key, entry)
               /\ IF outcome = "ErrSaveIndex"
                  THEN UNCHANGED indexFiles
                  ELSE save_index(layer_index', config_index)
       /\ UNCHANGED <<cache_dir, config_index, jsonFiles>>

\* Cache::store_config
store_config(key, config, now, outcome) ==
    LET config_path == ConfigPath(cache_dir, key)
        entry == [path |-> config_path, timestamp |-> now]
    IN /\ outcome \in StoreOutcomes
       /\ IF outcome = "ErrWrite"
          THEN UNCHANGED <<jsonFiles, config_index, indexFiles>>
          ELSE /\ jsonFiles' = [p \in DOMAIN jsonFiles \cup {config_path} |->
                                  IF p = config_path THEN config ELSE jsonFiles[p]]
               /\ config_index' = Insert(config_index, key, entry)
               /\ IF outcome = "ErrSaveIndex"
                  THEN UNCHANGED indexFiles
                  ELSE save_index(layer_index, config_index')
       /\ UNCHANGED <<cache_dir, layer_index, binFiles>>

\* OrphanBin looking the path up in an index that holds no layer path
OrphanBinWrongIndex(li) ==
    {p \in DOMAIN binFiles :
        p.dir = cache_dir /\ ~ \E k \in DOMAIN config_index : config_index[k].path = p}

\* the "bin" files of the cache directory no entry of the layer index names
OrphanBin(li) ==
    {p \in DOMAIN binFiles :
        p.dir = cache_dir /\ ~ \E k \in DOMAIN li : li[k].path = p}

\* OrphanJson with the "json" arm of the scan left out
OrphanJsonNever(ci) == {}

\* the "json" files of the cache directory no entry of the config index names,
\* index.json apart
OrphanJson(ci) ==
    {p \in DOMAIN jsonFiles :
        p.dir = cache_dir /\ ~ \E k \in DOMAIN ci : ci[k].path = p}

CleanupOutcomes == {"Ok", "ErrReadDir", "ErrRemove", "ErrSaveIndex"}

\* Cache::cleanup. The directory scan meets the files in any order, so a
\* remove_file that fails leaves any of the other unreferenced files removed:
\* goneBin, goneJson and goneIndex are the files removed before the failure.
\* index.json has the extension "json" and is no entry's path: the scan
\* removes it, and save_index writes it again.
cleanup(max_age, now, outcome, goneBin, goneJson, goneIndex) ==
    LET li == Retain(layer_index, now, max_age)
        ci == Retain(config_index, now, max_age)
        hasIndex == cache_dir \in DOMAIN indexFiles
        noIndex == [d \in DOMAIN indexFiles \ {cache_dir} |-> indexFiles[d]]
    IN /\ outcome \in CleanupOutcomes
       /\ layer_index' = li
       /\ config_index' = ci
       /\ UNCHANGED cache_dir
       /\ CASE outcome = "ErrReadDir" ->
                 UNCHANGED <<binFiles, jsonFiles, indexFiles>>
            [] outcome = "ErrRemove" ->
                 /\ goneBin \subseteq OrphanBin(li)
                 /\ goneJson \subseteq OrphanJson(ci)
                 /\ goneIndex \in BOOLEAN /\ (goneIndex => hasIndex)
                 \* the file whose removal fails is not removed
                 /\ \/ goneBin # OrphanBin(li)
                    \/ goneJson # OrphanJson(ci)
                    \/ (hasIndex /\ ~goneIndex)
                 /\ binFiles' = RemoveFiles(binFiles, goneBin)
                 /\ jsonFiles' = RemoveFiles(jsonFiles, goneJson)
                 /\ indexFiles' = IF goneIndex THEN noIndex ELSE indexFiles
            [] outcome = "ErrSaveIndex" ->
                 /\ binFiles' = RemoveFiles(binFiles, OrphanBin(li))
                 /\ jsonFiles' = RemoveFiles(jsonFiles, OrphanJson(ci))
                 /\ indexFiles' = noIndex
            [] outcome = "Ok" ->
                 /\ binFiles' = RemoveFiles(binFiles, OrphanBin(li))
                 /\ jsonFiles' = RemoveFiles(jsonFiles, OrphanJson(ci))
                 /\ save_index(li, ci)

\* Cache::new starting from empty indexes whatever the directory holds
new_forgets(dir) ==
    /\ cache_dir' = dir
    /\ layer_index' = EmptyFn
    /\ config_index' = EmptyFn

\* Cache::new(dir): the persisted Cache when <dir>/index.json exists, an empty
\* one otherwise
new(dir) ==
    IF dir \in DOMAIN indexFiles
    THEN /\ cache_dir' = indexFiles[dir].cache_dir
         /\ layer_index' = indexFiles[dir].layer_index
         /\ config_index' = indexFiles[dir].config_index
    ELSE /\ cache_dir' = dir
         /\ layer_index' = EmptyFn
         /\ config_index' = EmptyFn

-----------------------------------------------------------------------------
(* Layer::from_dir (src/src/layer.rs) *)

\* the level handed to zstd::Encoder::new
ZstdLevel == 3

\* the first byte of a zstd frame (magic number 0xFD2FB528, little endian)
ZstdMagic == 40

\* tar::Builder over the regular files of a tree, given as the bytes of its
\* entries: the entries, then the end-of-archive blocks
TarArchive(tree) == tree \o <<0, 0>>

\* Layer::compress_data: one zstd frame, a function of the data and the level
compress_data(data) == <<ZstdMagic, ZstdLevel>> \o data

\* Layer::from_dir, once the walk and the archive succeeded
from_dir(tree) ==
    LET data == TarArchive(tree)
        compressed == compress_data(data)
    IN MkLayer(MediaTarGzip, Sha256Digest(compressed), Len(data),
               Len(compressed), compressed, Sha256Digest(data), <<>>)

-----------------------------------------------------------------------------
(* ImageConfig, the merged config and the manifest *)

MaxOf(S) == CHOOSE x \in S : \A y \in S : y <= x

\* ImageConfig::default_config, what main hands to the builder when the
\* project has no build metadata
ProjectConfig ==
    [env |-> <<"PATH=/usr/local/sbin:/usr/local/bin:/usr/sbin:/usr/bin:/sbin:/bin",
               "PYTHONUNBUFFERED=1">>,
     cmd |-> <<"python", "main.py">>,
     working_dir |-> "/app",
     entrypoint |-> <<>>]

\* PythonImageBuilder::venv_config, deps_config, app_config
venv_config ==
    [env |-> <<"VIRTUAL_ENV=/venv", "PATH=/venv/bin:$PATH">>,
     cmd |-> <<>>, working_dir |-> "", entrypoint |-> <<>>]
deps_config ==
    [env |-> <<"PYTHONPATH=/app/deps:$PYTHONPATH">>,
     cmd |-> <<>>, working_dir |-> "", entrypoint |-> <<>>]
app_config(self_config) ==
    [env |-> self_config.env, cmd |-> self_config.cmd, working_dir |-> "/app",
     entrypoint |-> <<>>]

\* the env of the first config alone
ConcatEnvFirstOnly(configs) == IF configs = <<>> THEN <<>> ELSE Head(configs).env

RECURSIVE ConcatEnv(_)
ConcatEnv(configs) ==
    IF configs = <<>> THEN <<>>
    ELSE Head(configs).env \o ConcatEnv(Tail(configs))

\* generate_config keeping the first working_dir and the first cmd it meets
generate_config_first_wins(self_config, configs) ==
    LET wd == {i \in 1..Len(configs) : configs[i].working_dir # ""}
        cm == {i \in 1..Len(configs) : configs[i].cmd # <<>>}
    IN [env |-> ConcatEnv(configs)
                  \o <<"PYTHONUNBUFFERED=1", "PYTHONDONTWRITEBYTECODE=1",
                       "PYTHONPATH=/app/deps:/app">>,
        working_dir |-> IF wd = {} THEN <<>>
                        ELSE <<configs[CHOOSE i \in wd : \A j \in wd : i <= j].working_dir>>,
        cmd |-> IF cm = {} THEN <<>>
                ELSE <<configs[CHOOSE i \in cm : \A j \in cm : i <= j].cmd>>,
        entrypoint |-> <<"/bin/sh", "-c",
                         <<"source /venv/bin/activate && python /app/">>
                            \o self_config.entrypoint>>]

\* PythonImageBuilder::generate_config; an unset Option is <<>>, Some(x) is <<x>>
generate_config(self_config, configs) ==
    LET wd == {i \in 1..Len(configs) : configs[i].working_dir # ""}
        cm == {i \in 1..Len(configs) : configs[i].cmd # <<>>}
    IN [env |-> ConcatEnv(configs)
                  \o <<"PYTHONUNBUFFERED=1", "PYTHONDONTWRITEBYTECODE=1",
                       "PYTHONPATH=/app/deps:/app">>,
        working_dir |-> IF wd = {} THEN <<>> ELSE <<configs[MaxOf(wd)].working_dir>>,
        cmd |-> IF cm = {} THEN <<>> ELSE <<configs[MaxOf(cm)].cmd>>,
        entrypoint |-> <<"/bin/sh", "-c",
                         <<"source /venv/bin/activate && python /app/">>
                            \o self_config.entrypoint>>]

\* the texts a config of the model can hold, for their JSON encoding
StringTable ==
    <<"", "PATH=/usr/local/sbin:/usr/local/bin:/usr/sbin:/usr/bin:/sbin:/bin",
      "PYTHONUNBUFFERED=1", "python", "main.py", "/app", "VIRTUAL_ENV=/venv",
      "PATH=/venv/bin:$PATH", "PYTHONPATH=/app/deps:$PYTHONPATH",
      "PYTHONDONTWRITEBYTECODE=1", "PYTHONPATH=/app/deps:/app", "/bin/sh", "-c",
      "source /venv/bin/activate && python /app/", "A=1", "B=2", "x">>

\* a JSON array of strings: its length, then one code per string
JsonStrings(strs) ==
    <<Len(strs)>> \o [i \in 1..Len(strs) |-> IndexOf(StringTable, strs[i])]

\* the JSON document of a merged config, apart from its white space
JsonBody(config) ==
    JsonStrings(config.env)
    \o (IF config.working_dir = <<>> THEN <<0>>
        ELSE <<1>> \o JsonStrings(config.working_dir))
    \o (IF config.cmd = <<>> THEN <<0>> ELSE <<1>> \o JsonStrings(config.cmd[1]))
    \o JsonStrings(<<config.entrypoint[1], config.entrypoint[2]>>)
    \o JsonStrings(config.entrypoint[3])

\* the first byte that tells the two JSON writers apart: '{' followed by '"'
\* (compact) or by a line feed (pretty)
JsonCompact == 34
JsonPretty == 10

\* serde_json::to_vec and serde_json::to_vec_pretty of a merged config
to_vec(config) == <<JsonCompact>> \o JsonBody(config)
to_vec_pretty(config) == <<JsonPretty>> \o JsonBody(config)

\* Manifest::new with the layer descriptors in another order than the layers
ManifestNewReversed(config, layers, size, digest) ==
    [schema_version |-> 2,
     media_type |-> "application/vnd.oci.image.manifest.v1+json",
     config |-> [config |-> config,
                 media_type |-> "application/vnd.oci.image.config.v1+json",
                 size |-> size, digest |-> digest],
     layers |-> [i \in 1..Len(layers) |->
                    LET l == layers[Len(layers) + 1 - i] IN
                    [media_type |-> l.media_type, size |-> l.compressed_size,
                     digest |-> l.digest, annotations |-> l.annotations,
                     data |-> l.data]]]

\* Manifest::new
ManifestNew(config, layers, size, digest) ==
    [schema_version |-> 2,
     media_type |-> "application/vnd.oci.image.manifest.v1+json",
     config |-> [config |-> config,
                 media_type |-> "application/vnd.oci.image.config.v1+json",
                 size |-> size, digest |-> digest],
     layers |-> [i \in 1..Len(layers) |->
                    [media_type |-> layers[i].media_type,
                     size |-> layers[i].compressed_size,
                     digest |-> layers[i].digest,
                     annotations |-> layers[i].annotations,
                     data |-> layers[i].data]]]

\* PythonImageBuilder::create_manifest
create_manifest(config, layers) ==
    LET config_json == to_vec(config)
    IN ManifestNew(config, layers, Len(config_json), Sha256Digest(config_json))

-----------------------------------------------------------------------------
(* Verification (src/src/builder.rs) *)

\* PythonImageBuilder::is_valid_media_type
is_valid_media_type(media_type) == media_type \in {MediaTar, MediaTarGzip}

\* verify_single_layer with the digest comparison left out
verify_single_layer_no_digest(layer) ==
    IF ~is_valid_media_type(layer.media_type) THEN "InvalidMediaType"
    ELSE IF layer.size = 0 THEN "ZeroSize"
    ELSE IF layer.diff_id # EmptyStr /\ ~StartsWithSha256(layer.diff_id)
         THEN "InvalidDiffId"
    ELSE "Ok"

\* PythonImageBuilder::verify_single_layer: "Ok" for Ok(Ok(())), else the
\* error of Ok(Err(..)); it never returns an outer Err
verify_single_layer(layer) ==
    IF ~is_valid_media_type(layer.media_type) THEN "InvalidMediaType"
    ELSE IF layer.size = 0 THEN "ZeroSize"
    ELSE IF Sha256Digest(layer.data) # layer.digest THEN "DigestMismatch"
    ELSE IF layer.diff_id # EmptyStr /\ ~StartsWithSha256(layer.diff_id)
         THEN "InvalidDiffId"
    ELSE "Ok"

\* the positions whose digest an earlier position already holds
Duplicates(layers) ==
    {i \in 1..Len(layers) : \E j \in 1..(i - 1) : layers[j].digest = layers[i].digest}

\* the positions whose layer verify_single_layer rejects
Rejected(layers) ==
    {i \in 1..Len(layers) : verify_single_layer(layers[i]) # "Ok"}

MinOf(S) == CHOOSE x \in S : \A y \in S : x <= y

\* verify_layers with the per-layer checks made before the duplicate check
verify_layers_checks_first(layers) ==
    IF Rejected(layers) # {}
    THEN [ok |-> FALSE, err |-> verify_single_layer(layers[MinOf(Rejected(layers))]),
          at |-> MinOf(Rejected(layers))]
    ELSE IF Duplicates(layers) # {}
    THEN [ok |-> FALSE, err |-> "Duplicate", at |-> MinOf(Duplicates(layers))]
    ELSE [ok |-> TRUE, err |-> "Ok", at |-> 0]

\* PythonImageBuilder::verify_layers: the duplicate loop, then the results of
\* the per-layer checks in the order of the layers
verify_layers(layers) ==
    IF Duplicates(layers) # {}
    THEN [ok |-> FALSE, err |-> "Duplicate", at |-> MinOf(Duplicates(layers))]
    ELSE IF Rejected(layers) # {}
    THEN [ok |-> FALSE, err |-> verify_single_layer(layers[MinOf(Rejected(layers))]),
          at |-> MinOf(Rejected(layers))]
    ELSE [ok |-> TRUE, err |-> "Ok", at |-> 0]

-----------------------------------------------------------------------------
(* Image references (src/src/builder.rs:656-702) *)

Contains(s, c) == \E i \in 1..Len(s) : s[i] = c

\* str::split(c): the pieces between the occurrences of c
RECURSIVE Split(_, _)
Split(s, c) ==
    IF Contains(s, c)
    THEN LET i == MinOf({j \in 1..Len(s) : s[j] = c})
         IN <<SubSeqFrom(s, 1, i - 1)>> \o Split(SubSeqFrom(s, i + 1, Len(s) - i), c)
    ELSE <<s>>

DockerHub == <<"registry-1.docker.io">>

ParseError == [ok |-> FALSE, registry |-> <<>>, repository |-> <<>>, tag |-> <<>>]

\* split_tag taking the first two pieces whatever their number
split_tag_lenient(repo_tag) ==
    LET parts == Split(repo_tag, ":")
    IN CASE Len(parts) = 1 -> [ok |-> TRUE, repo |-> parts[1], tag |-> <<"latest">>]
         [] OTHER -> [ok |-> TRUE, repo |-> parts[1], tag |-> parts[2]]

\* PythonImageBuilder::split_tag
split_tag(repo_tag) ==
    LET parts == Split(repo_tag, ":")
    IN CASE Len(parts) = 1 -> [ok |-> TRUE, repo |-> parts[1], tag |-> <<"latest">>]
         [] Len(parts) = 2 -> [ok |-> TRUE, repo |-> parts[1], tag |-> parts[2]]
         [] OTHER -> [ok |-> FALSE, repo |-> <<>>, tag |-> <<>>]

\* parse_image_reference taking the first of two segments for a registry
\* whatever it contains
parse_image_reference_always_registry(reference) ==
    LET parts == Split(reference, "/")
        st == split_tag(parts[Len(parts)])
    IN CASE Len(parts) = 1 ->
              IF ~st.ok THEN ParseError
              ELSE [ok |-> TRUE, registry |-> DockerHub,
                    repository |-> <<"library", "/">> \o st.repo, tag |-> st.tag]
         [] Len(parts) = 2 ->
              IF ~st.ok THEN ParseError
              ELSE [ok |-> TRUE, registry |-> parts[1], repository |-> st.repo,
                    tag |-> st.tag]
         [] Len(parts) = 3 ->
              IF ~st.ok THEN ParseError
              ELSE [ok |-> TRUE, registry |-> parts[1],
                    repository |-> parts[2] \o <<"/">> \o st.repo, tag |-> st.tag]
         [] OTHER -> ParseError

\* PythonImageBuilder::parse_image_reference
parse_image_reference(reference) ==
    LET parts == Split(reference, "/")
        st == split_tag(parts[Len(parts)])
    IN CASE Len(parts) = 1 ->
              IF ~st.ok THEN ParseError
              ELSE [ok |-> TRUE, registry |-> DockerHub,
                    repository |-> <<"library", "/">> \o st.repo, tag |-> st.tag]
         [] Len(parts) = 2 ->
              IF ~st.ok THEN ParseError
              ELSE IF Contains(parts[1], ".") \/ Contains(parts[1], ":")
              THEN [ok |-> TRUE, registry |-> parts[1], repository |-> st.repo,
                    tag |-> st.tag]
              ELSE [ok |-> TRUE, registry |-> DockerHub,
                    repository |-> parts[1] \o <<"/">> \o st.repo, tag |-> st.tag]
         [] Len(parts) = 3 ->
              IF ~st.ok THEN ParseError
              ELSE [ok |-> TRUE, registry |-> parts[1],
                    repository |-> parts[2] \o <<"/">> \o st.repo, tag |-> st.tag]
         [] OTHER -> ParseError

-----------------------------------------------------------------------------
(* The Cache on its own: any caller, any order of calls *)

\* the directory handed to Cache::new
CacheDir == <<"c">>

\* logical keys
CacheKeys == {<<"p">>, <<"q">>}

\* a Layer as download_and_process_layers makes it, and one whose digest and
\* diff_id are not the hash of anything and that carries an annotation
LayerA == MkLayer(MediaTarGzip, Sha256Digest(<<7>>), 1, 1, <<7>>,
                  Sha256Digest(<<7>>), <<>>)
LayerB == MkLayer(MediaTar, [pfx |-> "md5:", hex |-> <<3>>], 2, 1, <<8>>,
                  EmptyStr, <<5, 6>>)
CacheLayers == {LayerA, LayerB}

\* LayerMetadata as pull_base_image fills it
BaseMetadata(layer) ==
    [layer_type |-> "Application", source_hash |-> layer.digest,
     dependencies |-> <<>>]

\* the readings of the system clock; SystemTime is not monotonic, so a call
\* may read any of them whatever the calls before it read
Times == 0..MaxClock

\* the max_age values handed to cleanup: beyond MaxClock every entry is kept
MaxAges == 0..MaxClock

NoStore == [key |-> <<>>, layer |-> NoLayer, t |-> 0, stored |-> FALSE]

\* after: for a cleanup or a get_layer, when the call before it was a
\* store_layer that returned Ok, what that call stored; for any call, when
\* before it the process died inside a store, what that store was writing
NoCall ==
    [op |-> "none", key |-> <<>>, layer |-> NoLayer, max_age |-> 0,
     res |-> "Ok", ret |-> NoLayer, t |-> 0, allOk |-> TRUE, after |-> NoStore]

Call(op, key, layer, max_age, now, res, ret) ==
    [op |-> op, key |-> key, layer |-> layer, max_age |-> max_age,
     res |-> res, ret |-> ret, t |-> now,
     allOk |-> last.allOk /\ res = "Ok",
     after |-> IF op \in {"cleanup", "get_layer"} /\ last.op = "store_layer" /\ last.res = "Ok"
               THEN [key |-> last.key, layer |-> last.layer, t |-> last.t,
                     stored |-> TRUE]
               ELSE IF last.op = "crash"
               THEN [key |-> last.key, layer |-> last.layer, t |-> last.t,
                     stored |-> FALSE]
               ELSE NoStore]

Record(call) ==
    /\ ncalls' = ncalls + 1
    /\ last' = call

\* the state of a Cache that Cache::new made of an empty directory
EmptyCache ==
    /\ cache_dir = CacheDir
    /\ layer_index = EmptyFn
    /\ config_index = EmptyFn
    /\ binFiles = EmptyFn
    /\ jsonFiles = EmptyFn
    /\ indexFiles = EmptyFn
    /\ last = NoCall
    /\ ncalls = 0

\* no builder at work
NoBuild ==
    /\ base_image = <<>>
    /\ nbuild = 0
    /\ pc = "Idle"
    /\ tmp_dir = "none"
    /\ reg = [nreq |-> 0, treq |-> 0, mreq |-> 0,
              ref |-> [ok |-> FALSE, registry |-> <<>>, repository |-> <<>>,
                       tag |-> <<>>],
              probe |-> "none", token |-> "", first |-> "none", index |-> <<>>,
              want |-> 0,
              fetched |-> [architecture |-> "", os |-> "", attestation |-> FALSE,
                           digest |-> 0],
              blobs |-> 0, data |-> <<>>, parts |-> <<>>]
    /\ base = [layer |-> NoLayer, config |-> DefaultImageConfig]
    /\ tasks = EmptyFn
    /\ out = [blobs |-> EmptyFn, manifest |-> <<>>, layout |-> FALSE, dirs |-> FALSE]
    /\ manifest = <<>>
    /\ trace = <<>>
    /\ result = [ok |-> FALSE, stage |-> "none", err |-> "none"]
    /\ pulled = "no"

CacheInit == EmptyCache /\ NoBuild

StoreLayer ==
    /\ ncalls < MaxCalls
    /\ \E key \in CacheKeys, layer \in CacheLayers, now \in Times,
       outcome \in StoreOutcomes :
        /\ store_layer(key, layer, BaseMetadata(layer), now, outcome)
        /\ Record(Call("store_layer", key, layer, 0, now,
                       IF outcome = "Ok" THEN "Ok" ELSE "Err", NoLayer))
        /\ UNCHANGED buildVars

StoreConfig ==
    /\ ncalls < MaxCalls
    /\ \E key \in CacheKeys, now \in Times, outcome \in StoreOutcomes :
        /\ store_config(key, DefaultImageConfig, now, outcome)
        /\ Record(Call("store_config", key, NoLayer, 0, now,
                       IF outcome = "Ok" THEN "Ok" ELSE "Err", NoLayer))
        /\ UNCHANGED buildVars

Cleanup ==
    /\ ncalls < MaxCalls
    /\ \E max_age \in MaxAges, now \in Times, outcome \in CleanupOutcomes,
       goneBin \in SUBSET DOMAIN binFiles, goneJson \in SUBSET DOMAIN jsonFiles,
       goneIndex \in BOOLEAN :
        /\ outcome # "ErrRemove" =>
              goneBin = {} /\ goneJson = {} /\ ~goneIndex
        /\ cleanup(max_age, now, outcome, goneBin, goneJson, goneIndex)
        /\ Record(Call("cleanup", <<>>, NoLayer, max_age, now,
                       IF outcome = "Ok" THEN "Ok" ELSE "Err", NoLayer))
        /\ UNCHANGED buildVars

GetLayer ==
    /\ ncalls < MaxCalls
    /\ \E key \in CacheKeys :
        /\ Record(Call("get_layer", key, NoLayer, 0, 0, "Ok", get_layer(key)))
        /\ UNCHANGED <<cacheVars, buildVars>>

\* the process ends and a later one opens the same directory
NewCache ==
    /\ ncalls < MaxCalls
    /\ new(CacheDir)
    /\ Record(Call("new", <<>>, NoLayer, 0, 0, "Ok", NoLayer))
    /\ UNCHANGED <<binFiles, jsonFiles, indexFiles>>
    /\ UNCHANGED buildVars

CacheNext ==
    \/ StoreLayer
    \/ StoreConfig
    \/ Cleanup
    \/ GetLayer
    \/ NewCache

SpecCache == CacheInit /\ [][CacheNext]_vars

-----------------------------------------------------------------------------
(* Claims about the Cache *)

\* the paths the entries of the two indexes name
LayerPathsOf(li) == {li[k].path : k \in DOMAIN li}
ConfigPathsOf(ci) == {ci[k].path : k \in DOMAIN ci}

\* this step is a call of cleanup that returns Ok
CleanupOkStep ==
    ncalls' = ncalls + 1 /\ last'.op = "cleanup" /\ last'.res = "Ok"

\* C1: a store_layer(key, L) that returns Ok, followed at once by
\* get_layer(key), makes get_layer return a Layer equal to L in every field.
C1_StoreThenGet ==
    (last.op = "get_layer" /\ last.after.stored /\ last.after.key = last.key)
        => last.ret = last.after.layer

\* C8: as long as every call on the Cache returned Ok, every entry of the
\* layer index and of the config index names a file that exists.
C8_EntriesHaveFiles ==
    last.allOk =>
        /\ LayerPathsOf(layer_index) \subseteq DOMAIN binFiles
        /\ ConfigPathsOf(config_index) \subseteq DOMAIN jsonFiles

\* store_layer, store_config and cleanup all returned Ok, and both indexes
\* hold an entry after the cleanup
C8_Witness ==
    /\ last.allOk
    /\ last.op = "cleanup"
    /\ layer_index # EmptyFn
    /\ config_index # EmptyFn

\* C9: when cleanup returns Ok, no artifact file of the cache directory is
\* left that no surviving entry names, and no file that a surviving entry
\* names was removed or changed.
C9_CleanupExact ==
    [][CleanupOkStep =>
        /\ \A p \in DOMAIN binFiles' :
              p.dir = cache_dir => p \in LayerPathsOf(layer_index')
        /\ \A p \in DOMAIN jsonFiles' :
              p.dir = cache_dir => p \in ConfigPathsOf(config_index')
        /\ \A p \in LayerPathsOf(layer_index') \cap DOMAIN binFiles :
              p \in DOMAIN binFiles' /\ binFiles'[p] = binFiles[p]
        /\ \A p \in ConfigPathsOf(config_index') \cap DOMAIN jsonFiles :
              p \in DOMAIN jsonFiles' /\ jsonFiles'[p] = jsonFiles[p]
      ]_vars

\* cleanup returned Ok after two keys shared one backing file: the key stored
\* last has expired, the other key survives and its file is still there; and
\* a config file that was not referenced is gone
C9_Witness ==
    /\ last.op = "cleanup" /\ last.res = "Ok"
    /\ last.after.stored /\ last.after.key \notin DOMAIN layer_index
    /\ \E k \in DOMAIN layer_index :
          /\ layer_index[k].path = LayerPath(cache_dir, last.after.layer.digest)
          /\ layer_index[k].path \in DOMAIN binFiles
    /\ config_index = EmptyFn /\ jsonFiles = EmptyFn

\* the cleanup(0) of C10: it returned Ok right after a store_layer that
\* returned Ok
CleanupZeroAfterStore ==
    /\ last.op = "cleanup" /\ last.res = "Ok" /\ last.max_age = 0
    /\ last.after.stored

\* C10 as stated: after store_layer(key, L) and then cleanup(0) at any clock
\* reading not earlier than the store's, the same reading included, the key
\* has no entry, get_layer(key) is absent and layer_<digest>.bin is gone.
C10_CleanupZeroRemoves ==
    (CleanupZeroAfterStore /\ last.t >= last.after.t) =>
        /\ last.after.key \notin DOMAIN layer_index
        /\ get_layer(last.after.key) = NoLayer
        /\ LayerPath(cache_dir, last.after.layer.digest) \notin DOMAIN binFiles

\* C10 amended: after store_layer(key, L) and then cleanup(0) at a clock
\* reading strictly later than the store's, the key has no entry,
\* get_layer(key) is absent, and layer_<digest>.bin is gone unless the entry
\* of another key that names the same file survived.
C10_CleanupZeroRemovesLater ==
    (CleanupZeroAfterStore /\ last.t > last.after.t) =>
        /\ last.after.key \notin DOMAIN layer_index
        /\ get_layer(last.after.key) = NoLayer
        /\ \/ LayerPath(cache_dir, last.after.layer.digest) \notin DOMAIN binFiles
           \/ LayerPath(cache_dir, last.after.layer.digest)
                 \in LayerPathsOf(layer_index)

\* cleanup(0) ran at a later clock reading than the store and removed the
\* entry and its file
C10_Witness ==
    /\ CleanupZeroAfterStore /\ last.t > last.after.t
    /\ last.after.key \notin DOMAIN layer_index
    /\ LayerPath(cache_dir, last.after.layer.digest) \notin DOMAIN binFiles

-----------------------------------------------------------------------------
(* The Cache when the process dies inside a store *)

\* a cache directory as an earlier process can leave it when its cleanup
\* fails after removing files: index.json lists the entry of one layer, and
\* the file of that layer is gone
CrashInit ==
    /\ cache_dir = CacheDir
    /\ layer_index =
          [k \in {<<"p">>} |->
              [digest |-> LayerA.digest, path |-> LayerPath(CacheDir, LayerA.digest),
               timestamp |-> 0, metadata |-> BaseMetadata(LayerA)]]
    /\ config_index = EmptyFn
    /\ binFiles = EmptyFn
    /\ jsonFiles = EmptyFn
    /\ indexFiles = [d \in {CacheDir} |->
                        PersistedCache(CacheDir, layer_index, config_index)]
    /\ last = NoCall
    /\ ncalls = 0
    /\ NoBuild

\* store_layer up to the write of the layer file (cache.rs:143); then the
\* process dies, and a later one opens the directory with Cache::new: two
\* calls, the store and the new
CrashInStoreLayer ==
    /\ ncalls + 1 < MaxCalls
    /\ \E key \in CacheKeys, layer \in CacheLayers :
          LET layer_path == LayerPath(cache_dir, layer.digest)
          IN /\ binFiles' = [f \in DOMAIN binFiles \cup {layer_path} |->
                                IF f = layer_path THEN SerializeLayer(layer)
                                ELSE binFiles[f]]
             /\ new(CacheDir)
             /\ ncalls' = ncalls + 2
             /\ last' = Call("crash", key, layer, 0, 0, "Err", NoLayer)
    /\ UNCHANGED <<jsonFiles, indexFiles, buildVars>>

\* store_config up to the write of the config file (cache.rs:72); then the
\* process dies, and a later one opens the directory with Cache::new
CrashInStoreConfig ==
    /\ ncalls + 1 < MaxCalls
    /\ \E key \in CacheKeys :
          LET config_path == ConfigPath(cache_dir, key)
          IN /\ jsonFiles' = [f \in DOMAIN jsonFiles \cup {config_path} |->
                                 IF f = config_path THEN DefaultImageConfig
                                 ELSE jsonFiles[f]]
             /\ new(CacheDir)
             /\ ncalls' = ncalls + 2
             /\ last' = Call("crash", key, NoLayer, 0, 0, "Err", NoLayer)
    /\ UNCHANGED <<binFiles, indexFiles, buildVars>>

CrashNext ==
    \/ CrashInStoreLayer
    \/ CrashInStoreConfig
    \/ StoreLayer
    \/ StoreConfig
    \/ Cleanup

SpecCrash == CrashInit /\ [][CrashNext]_vars

\* the indexes a Cache::new on the cache directory would load: those of
\* index.json, empty ones when there is no such file
Persisted ==
    IF cache_dir \in DOMAIN indexFiles
    THEN [layer_index |-> indexFiles[cache_dir].layer_index,
          config_index |-> indexFiles[cache_dir].config_index]
    ELSE [layer_index |-> EmptyFn, config_index |-> EmptyFn]

\* C24: when store_layer, store_config or cleanup has returned, with Ok or
\* with an error, index.json holds the layer index and the config index the
\* Cache holds in memory
C24_IndexPersisted ==
    last.op \in {"store_layer", "store_config", "cleanup"} =>
       /\ Persisted.layer_index = layer_index
       /\ Persisted.config_index = config_index

\* this step is a call of the store operation op that returns Ok
StoreOkStep(op) ==
    ncalls' = ncalls + 1 /\ last'.op = op /\ last'.res = "Ok"

\* this step is the death of the process inside a store, and the restart
CrashStep ==
    ncalls' = ncalls + 2 /\ last'.op = "crash"

\* an index entry whose file is missing reads as absent
DanglingReadsAbsent ==
    /\ \A k \in DOMAIN layer_index :
          (layer_index[k].path \notin DOMAIN binFiles) => (get_layer(k) = NoLayer)
    /\ \A k \in DOMAIN config_index :
          (config_index[k].path \notin DOMAIN jsonFiles) => (get_config(k) = NoConfig)

\* C27: when the process dies inside store_layer or store_config between the
\* write of the artifact and the write of the index, the Cache::new of the
\* restart loads the indexes index.json held; from then on a cleanup that
\* returns Ok leaves no artifact file the indexes do not name, an entry whose
\* file is missing reads as absent, and a store that returns Ok under a key
\* leaves that key with an entry of what was stored whose file is there.
C27_CrashRecoverable ==
    /\ [][CrashStep =>
            /\ layer_index' = Persisted.layer_index
            /\ config_index' = Persisted.config_index
            /\ indexFiles' = indexFiles
          ]_vars
    /\ [][CleanupOkStep =>
            /\ DOMAIN binFiles' = LayerPathsOf(layer_index') \cap DOMAIN binFiles
            /\ DOMAIN jsonFiles' = ConfigPathsOf(config_index') \cap DOMAIN jsonFiles
            /\ Persisted'.layer_index = layer_index'
            /\ Persisted'.config_index = config_index'
          ]_vars
    /\ []DanglingReadsAbsent
    /\ [][StoreOkStep("store_layer") =>
            /\ last'.key \in DOMAIN layer_index'
            /\ layer_index'[last'.key].digest = last'.layer.digest
            /\ layer_index'[last'.key].path \in DOMAIN binFiles'
            /\ binFiles'[layer_index'[last'.key].path] = SerializeLayer(last'.layer)
            /\ Persisted'.layer_index = layer_index'
          ]_vars
    /\ [][StoreOkStep("store_config") =>
            /\ last'.key \in DOMAIN config_index'
            /\ config_index'[last'.key].path \in DOMAIN jsonFiles'
            /\ Persisted'.config_index = config_index'
          ]_vars

\* the process died inside store_layer, leaving a layer file no entry names;
\* after the restart a cleanup returned Ok and that file is gone
C27_Witness ==
    /\ last.op = "cleanup" /\ last.res = "Ok"
    /\ ~last.after.stored /\ last.after.layer # NoLayer
    /\ LayerPath(cache_dir, last.after.layer.digest) \notin DOMAIN binFiles
    /\ Persisted.layer_index = layer_index

\* this step is a call of cleanup, whatever it returns
CleanupStep ==
    ncalls' = ncalls + 1 /\ last'.op = "cleanup"

\* C31: when index.json is in the cache directory at the call of cleanup, it
\* is there when cleanup returns, with Ok or with an error.
C31_IndexSurvivesCleanup ==
    [][(CleanupStep /\ cache_dir \in DOMAIN indexFiles)
          => cache_dir \in DOMAIN indexFiles']_vars

-----------------------------------------------------------------------------
(* Cache::new on a directory whose index.json another path wrote *)

\* the path under which an earlier Cache wrote the index.json that is now in
\* CacheDir (the directory was renamed or copied, or was opened by another
\* spelling of its path)
OldDir == <<"o">>

\* before Cache::new(CacheDir): the directory holds an index.json written by
\* a Cache whose cache_dir was CacheDir or OldDir, with no entry or with the
\* entry of one layer whose file came along
MovedInit ==
    /\ \E d \in {CacheDir, OldDir}, stored \in BOOLEAN :
          /\ indexFiles =
                [c \in {CacheDir} |->
                    PersistedCache(d,
                        IF stored
                        THEN [k \in {<<"p">>} |->
                                 [digest |-> LayerA.digest,
                                  path |-> LayerPath(d, LayerA.digest),
                                  timestamp |-> 0, metadata |-> BaseMetadata(LayerA)]]
                        ELSE EmptyFn,
                        EmptyFn)]
          /\ binFiles =
                IF stored
                THEN [f \in {LayerPath(CacheDir, LayerA.digest)} |-> SerializeLayer(LayerA)]
                ELSE EmptyFn
    /\ jsonFiles = EmptyFn
    /\ cache_dir = CacheDir
    /\ layer_index = EmptyFn
    /\ config_index = EmptyFn
    /\ last = NoCall
    /\ ncalls = 0
    /\ NoBuild

\* Cache::new(CacheDir) has returned
Opened == last.op # "none"

\* the process opens the directory first and then uses the Cache
MovedNext ==
    \/ ~Opened /\ NewCache
    \/ Opened /\ StoreLayer
    \/ Opened /\ StoreConfig
    \/ Opened /\ Cleanup

SpecMoved == MovedInit /\ [][MovedNext]_vars

\* C32: after Cache::new(dir) has returned Ok, every file the Cache writes,
\* index.json included, is inside dir, also when the index.json of dir was
\* written under another path.
C32_WritesInsideDir ==
    Opened =>
        /\ \A p \in DOMAIN binFiles \cup DOMAIN jsonFiles : p.dir = CacheDir
        /\ DOMAIN indexFiles \subseteq {CacheDir}

-----------------------------------------------------------------------------
(* PythonImageBuilder::build (src/src/builder.rs:180-233) *)

\* the base images the builder is made with: no tag, a tag, two ':'
BaseRefs == {<<"p">>, <<"p", ":", "3">>, <<"p", ":", "3", ":", "4">>}

\* the first byte of a gzip stream
GzipMagic == 31

\* a gzip stream of a payload, as a registry serves a tar+gzip layer
Gzip(payload) == <<GzipMagic>> \o payload

\* the bytes the registry can serve for the k-th layer of a manifest: none,
\* or a compressed layer, another for each layer
BlobBytes(k) == {<<>>, Gzip(<<k>>)}

Tasks == {"venv", "deps", "app"}

\* the trees the three layer builds can find in their directories
Trees(t) ==
    CASE t = "venv" -> {<<4>>}
      [] t = "deps" -> {<<5>>, <<6>>}
      [] t = "app" -> {<<6>>, <<7>>}

NoResult == [ok |-> FALSE, stage |-> "none", err |-> "none"]
OkResult == [ok |-> TRUE, stage |-> "done", err |-> "none"]

\* pull_base_image before its first statement: no reference parsed (ref), no
\* request sent (nreq, of which treq to the token endpoint and mreq for a
\* manifest), no probe answered (probe), no token, no first manifest response
\* (first, and index when it lists manifests), no entry selected (want) or
\* fetched by digest (fetched), no blob to fetch (blobs) or fetched (data, and
\* parts: the responses to the blob requests in the order they came, each
\* with the place of its blob in the manifest)
NoEntry == [architecture |-> "", os |-> "", attestation |-> FALSE, digest |-> 0]
NoPull ==
    [nreq |-> 0, treq |-> 0, mreq |-> 0, ref |-> ParseError, probe |-> "none",
     token |-> "", first |-> "none", index |-> <<>>, want |-> 0,
     fetched |-> NoEntry, blobs |-> 0, data |-> <<>>, parts |-> <<>>]
NoBase == [layer |-> NoLayer, config |-> DefaultImageConfig]
EmptyOut == [blobs |-> EmptyFn, manifest |-> <<>>, layout |-> FALSE, dirs |-> FALSE]

\* a stage of build ended, well or not
Ended(stage, ok) == trace' = Append(trace, [stage |-> stage, ok |-> ok])

\* what becomes of the temporary directory when the TempDir is dropped or
\* closed: remove_dir_all removes it, or fails and leaves it
Removal == {"removed", "left"}

\* build returns the error of a stage through `?`; the TempDir is dropped,
\* which removes the directory unless the removal fails
Fail(stage, err) ==
    /\ Ended(stage, FALSE)
    /\ result' = [ok |-> FALSE, stage |-> stage, err |-> err]
    /\ pc' = "Failed"
    /\ tmp_dir' \in Removal

\* one more request went to the registry
Request == [reg EXCEPT !.nreq = @ + 1]

\* the config each layer build returns with its layer
TaskConfig(t) ==
    CASE t = "venv" -> venv_config
      [] t = "deps" -> deps_config
      [] t = "app" -> app_config(ProjectConfig)

\* the task that was the r-th to complete
TaskOfRank(r) == CHOOSE t \in Tasks : tasks[t].rank = r

\* the layers of the three tasks taken in the order the tasks completed
BuiltLayersByCompletion ==
    <<base.layer, tasks[TaskOfRank(1)].layer, tasks[TaskOfRank(2)].layer,
      tasks[TaskOfRank(3)].layer>>

\* the four configs in the order build hands them to generate_config
BuiltConfigs ==
    <<base.config, tasks["venv"].config, tasks["deps"].config, tasks["app"].config>>

\* the four layers in the order build hands them on
BuiltLayers ==
    <<base.layer, tasks["venv"].layer, tasks["deps"].layer, tasks["app"].layer>>

BuildInit ==
    /\ EmptyCache
    /\ base_image \in BaseRefs
    /\ nbuild = 0
    /\ pc = "Idle"
    /\ tmp_dir = "none"
    /\ reg = NoPull
    /\ base = NoBase
    /\ tasks = EmptyFn
    /\ out = EmptyOut
    /\ manifest = <<>>
    /\ trace = <<>>
    /\ result = NoResult
    /\ pulled = "no"

\* main: Cache::new on the cache directory, PythonImageBuilder::new, and the
\* first statement of build, TempDir::new. Each build writes to an output
\* directory of its own.
StartBuild ==
    /\ pc \in {"Idle", "Done", "Failed"}
    /\ nbuild < MaxBuilds
    /\ nbuild' = nbuild + 1
    /\ new(CacheDir)
    /\ reg' = NoPull
    /\ base' = NoBase
    /\ tasks' = EmptyFn
    /\ out' = EmptyOut
    /\ manifest' = <<>>
    /\ pulled' = IF pulled = "this" THEN "before" ELSE pulled
    /\ \E created \in BOOLEAN :
          IF base_image = <<>> \/ Contains(base_image, "/") \/ Contains(base_image, "\\")
          THEN /\ pc' = "Failed"
               /\ result' = [ok |-> FALSE, stage |-> "new", err |-> "InvalidBaseImage"]
               /\ trace' = <<>>
               /\ tmp_dir' = "none"
          ELSE IF created
          THEN /\ pc' = "Pull"
               /\ result' = NoResult
               /\ trace' = <<>>
               /\ tmp_dir' = "exists"
          ELSE /\ pc' = "Failed"
               /\ result' = [ok |-> FALSE, stage |-> "init", err |-> "TempDir"]
               /\ trace' = <<[stage |-> "init", ok |-> FALSE]>>
               /\ tmp_dir' = "none"
    /\ UNCHANGED <<binFiles, jsonFiles, indexFiles, histVars, base_image>>

StartTasks ==
    tasks' = [t \in Tasks |->
                 [st |-> "start", layer |-> NoLayer, config |-> DefaultImageConfig,
                  rank |-> 0]]

\* pull_base_image returning an error when the index names the key and the
\* cached artifact cannot be used
PullHardError ==
    /\ pc = "Pull"
    /\ LET cached_layer == get_layer(base_image)
           ref == parse_image_reference(base_image)
       IN IF cached_layer = NoLayer /\ base_image \in DOMAIN layer_index
          THEN Fail("base", "CacheCorrupt") /\ UNCHANGED <<base, tasks, reg>>
          ELSE IF ~ref.ok
          THEN /\ Fail("base", "InvalidReference")
               /\ reg' = [reg EXCEPT !.ref = ref]
               /\ UNCHANGED <<base, tasks>>
          ELSE /\ pc' = "AuthProbe"
               /\ reg' = [reg EXCEPT !.ref = ref]
               /\ UNCHANGED <<base, tasks, trace, result, tmp_dir>>
    /\ UNCHANGED <<cacheVars, histVars, base_image, nbuild, out, manifest, pulled>>

\* pull_base_image up to its first request: the cache lookup and, on a miss,
\* parse_image_reference
Pull ==
    /\ pc = "Pull"
    /\ LET cached_layer == get_layer(base_image)
           cached_config == get_config(base_image)
           ref == parse_image_reference(base_image)
       IN IF cached_layer # NoLayer
          THEN /\ base' = [layer |-> cached_layer,
                           config |-> IF cached_config = NoConfig
                                      THEN DefaultImageConfig ELSE cached_config]
               /\ Ended("base", TRUE)
               /\ pc' = "Layers"
               /\ StartTasks
               /\ UNCHANGED <<result, tmp_dir, reg>>
          ELSE IF ~ref.ok
          THEN /\ Fail("base", "InvalidReference")
               /\ reg' = [reg EXCEPT !.ref = ref]
               /\ UNCHANGED <<base, tasks>>
          ELSE /\ pc' = "AuthProbe"
               /\ reg' = [reg EXCEPT !.ref = ref]
               /\ UNCHANGED <<base, tasks, trace, result, tmp_dir>>
    /\ UNCHANGED <<cacheVars, histVars, base_image, nbuild, out, manifest, pulled>>

\* the answers to the anonymous request: no answer, or an HTTP status
ProbeAnswers == {"NetworkError", "200", "401", "404", "500"}

\* authenticate_registry asking for a token whenever the probe did not
\* answer with a success status
AuthProbeOnAnyFailure ==
    /\ pc = "AuthProbe"
    /\ \E answer \in ProbeAnswers :
          CASE answer = "NetworkError" ->
                 Fail("base", "Authenticate") /\ reg' = [Request EXCEPT !.probe = answer]
            [] answer \in {"401", "404", "500"} ->
                 /\ pc' = "AuthToken"
                 /\ reg' = [Request EXCEPT !.probe = answer]
                 /\ UNCHANGED <<trace, result, tmp_dir>>
            [] OTHER ->
                 /\ pc' = "FetchManifest"
                 /\ reg' = [Request EXCEPT !.probe = answer, !.token = ""]
                 /\ UNCHANGED <<trace, result, tmp_dir>>
    /\ UNCHANGED <<cacheVars, histVars, base_image, nbuild, base, tasks, out,
                   manifest, pulled>>

\* authenticate_registry: the anonymous manifest request
AuthProbe ==
    /\ pc = "AuthProbe"
    /\ \E answer \in ProbeAnswers :
          CASE answer = "NetworkError" ->
                 Fail("base", "Authenticate") /\ reg' = [Request EXCEPT !.probe = answer]
            [] answer = "401" ->
                 /\ pc' = "AuthToken"
                 /\ reg' = [Request EXCEPT !.probe = answer]
                 /\ UNCHANGED <<trace, result, tmp_dir>>
            [] OTHER ->
                 /\ pc' = "FetchManifest"
                 /\ reg' = [Request EXCEPT !.probe = answer, !.token = ""]
                 /\ UNCHANGED <<trace, result, tmp_dir>>
    /\ UNCHANGED <<cacheVars, histVars, base_image, nbuild, base, tasks, out,
                   manifest, pulled>>

\* authenticate_registry: the request to the token endpoint
AuthToken ==
    /\ pc = "AuthToken"
    /\ \E answer \in {"NetworkError", "Non2xx", "BadJson", "Token"} :
          IF answer = "Token"
          THEN /\ pc' = "FetchManifest"
               /\ reg' = [Request EXCEPT !.treq = @ + 1, !.token = "t"]
               /\ UNCHANGED <<trace, result, tmp_dir>>
          ELSE /\ Fail("base", "Authenticate")
               /\ reg' = [Request EXCEPT !.treq = @ + 1]
    /\ UNCHANGED <<cacheVars, histVars, base_image, nbuild, base, tasks, out,
                   manifest, pulled>>

\* std::env::consts::ARCH of the build this model is of
ARCH == "x86_64"

\* PythonImageBuilder::get_docker_arch
get_docker_arch(arch) ==
    CASE arch = "x86_64" -> "amd64"
      [] arch = "aarch64" -> "arm64"
      [] arch = "arm" -> "arm"
      [] arch = "x86" -> "386"
      [] arch = "powerpc64" -> "ppc64le"
      [] arch = "s390x" -> "s390x"
      [] OTHER -> "amd64"

\* the entries an index of the model can list: platform, and whether some
\* annotation value contains "attestation"; the digest of an entry is its
\* position in the index. An entry differs from the one find() accepts in at
\* most one of the three fields the closure tests.
Platforms ==
    {p \in [architecture : {"amd64", "arm64"}, os : {"linux", "windows"},
            attestation : BOOLEAN] :
        Cardinality({f \in {"architecture", "os", "attestation"} :
                        p[f] # [architecture |-> "amd64", os |-> "linux",
                                attestation |-> FALSE][f]}) <= 1}

Indexes == UNION {[1..n -> Platforms] : n \in 0..MaxEntries}

\* the positions find() of fetch_manifest skips only for their annotations
SelectableAnyAnnotation(index) ==
    {i \in 1..Len(index) :
        index[i].architecture = get_docker_arch(ARCH) /\ index[i].os = "linux"}

\* the positions of the entries the closure of find() in fetch_manifest accepts
Selectable(index) ==
    {i \in 1..Len(index) :
        /\ ~index[i].attestation
        /\ index[i].architecture = get_docker_arch(ARCH)
        /\ index[i].os = "linux"}

\* what a manifest request of the model can bring back: a transport error, an
\* error status, a body that does not parse, or a document with its content
\* type: an OCI image index ("Index", the content type contains "index"), a
\* Docker manifest list ("List", the content type does not), or a manifest
\* of some schema version and length
ManifestAnswers ==
    [kind : {"NetworkError", "Non2xx", "BadJson"}, schema_version : {0},
     layers : {0}, entries : {<<>>}]
    \cup [kind : {"Index", "List"}, schema_version : {2}, layers : {0},
          entries : Indexes]
    \cup [kind : {"Manifest"}, schema_version : {1, 2}, layers : 0..MaxBlobs,
          entries : {<<>>}]

\* one more request for a manifest went to the registry
ManifestRequest == [Request EXCEPT !.mreq = @ + 1]

\* pull_base_image with the manifest at hand: the schema check; from is reg
\* after the request that brought the manifest
GotManifest(m, from) ==
    IF m.schema_version # 2
    THEN Fail("base", "SchemaVersion") /\ reg' = from
    ELSE /\ pc' = "Download"
         /\ reg' = [from EXCEPT !.blobs = m.layers]
         /\ UNCHANGED <<trace, result, tmp_dir>>

\* fetch_manifest: the request by tag. Only a content type that contains
\* "index" is resolved by platform; any other document is parsed as a
\* schema-2 manifest, which a manifest list is not.
FetchManifest ==
    /\ pc = "FetchManifest"
    /\ \E m \in ManifestAnswers :
          LET got == [ManifestRequest EXCEPT !.first = m.kind, !.index = m.entries]
          IN CASE m.kind \in {"NetworkError", "Non2xx", "BadJson", "List"} ->
                    Fail("base", "FetchManifest") /\ reg' = got
               [] m.kind = "Index" ->
                    IF Selectable(m.entries) = {}
                    THEN Fail("base", "FetchManifest") /\ reg' = got
                    ELSE /\ pc' = "FetchSpecific"
                         /\ reg' = [got EXCEPT !.want = MinOf(Selectable(m.entries))]
                         /\ UNCHANGED <<trace, result, tmp_dir>>
               [] m.kind = "Manifest" -> GotManifest(m, got)
    /\ UNCHANGED <<cacheVars, histVars, base_image, nbuild, base, tasks, out,
                   manifest, pulled>>

\* fetch_manifest: the request by the digest of the selected index entry;
\* the index goes out of scope when fetch_manifest returns
FetchSpecific ==
    /\ pc = "FetchSpecific"
    /\ \E m \in ManifestAnswers :
          LET e == reg.index[reg.want]
              got == [ManifestRequest EXCEPT
                         !.index = <<>>,
                         !.fetched = [architecture |-> e.architecture, os |-> e.os,
                                      attestation |-> e.attestation,
                                      digest |-> reg.want]]
          IN /\ m.kind \in {"NetworkError", "Non2xx", "BadJson", "Manifest"}
             /\ IF m.kind = "Manifest" THEN GotManifest(m, got)
                ELSE Fail("base", "FetchManifest") /\ reg' = got
    /\ UNCHANGED <<cacheVars, histVars, base_image, nbuild, base, tasks, out,
                   manifest, pulled>>

\* download_and_process_layers putting each blob in front of the earlier ones
DownloadPrepends ==
    /\ pc = "Download"
    /\ reg.blobs > 0
    /\ LET k == Len(reg.parts) + 1
       IN \/ Fail("base", "Download") /\ reg' = Request
          \/ \E bytes \in BlobBytes(k) :
                /\ reg' = [Request EXCEPT
                              !.blobs = @ - 1,
                              !.data = bytes \o @,
                              !.parts = Append(@, [blob |-> k, bytes |-> bytes])]
                /\ UNCHANGED <<pc, trace, result, tmp_dir>>
    /\ UNCHANGED <<cacheVars, histVars, base_image, nbuild, base, tasks, out,
                   manifest, pulled>>

\* download_and_process_layers: one turn of its loop, download_blob included.
\* The turn asks for the next layer of the manifest, the k-th, and waits for
\* the whole body before the loop goes on.
Download ==
    /\ pc = "Download"
    /\ reg.blobs > 0
    /\ LET k == Len(reg.parts) + 1
       IN \/ Fail("base", "Download") /\ reg' = Request
          \/ \E bytes \in BlobBytes(k) :
                /\ reg' = [Request EXCEPT
                              !.blobs = @ - 1,
                              !.data = @ \o bytes,
                              !.parts = Append(@, [blob |-> k, bytes |-> bytes])]
                /\ UNCHANGED <<pc, trace, result, tmp_dir>>
    /\ UNCHANGED <<cacheVars, histVars, base_image, nbuild, base, tasks, out,
                   manifest, pulled>>

\* the Layer download_and_process_layers returns
combined_layer(data) ==
    MkLayer(MediaTarGzip, Sha256Digest(data), Len(data), Len(data), data,
            Sha256Digest(data), <<>>)

\* pull_base_image after the last blob: the combined Layer and Cache::store_layer
StoreBaseLayer ==
    /\ pc = "Download"
    /\ reg.blobs = 0
    /\ \E now \in Times, outcome \in StoreOutcomes :
          LET layer == combined_layer(reg.data)
          IN /\ store_layer(base_image, layer, BaseMetadata(layer), now, outcome)
             /\ IF outcome = "Ok"
                THEN /\ pc' = "StoreConfig"
                     /\ base' = [layer |-> layer, config |-> DefaultImageConfig]
                     /\ UNCHANGED <<trace, result, tmp_dir>>
                ELSE Fail("base", "StoreLayer") /\ UNCHANGED base
    /\ UNCHANGED <<histVars, base_image, nbuild, reg, tasks, out, manifest, pulled>>

\* pull_base_image returning the BaseImage although store_config failed
StoreBaseConfigGoesOn ==
    /\ pc = "StoreConfig"
    /\ \E now \in Times, outcome \in StoreOutcomes :
          /\ store_config(base_image, DefaultImageConfig, now, outcome)
          /\ pc' = "Layers"
          /\ Ended("base", TRUE)
          /\ StartTasks
          /\ pulled' = IF pulled = "no" THEN "this" ELSE pulled
          /\ reg' = NoPull
          /\ UNCHANGED <<result, tmp_dir>>
    /\ UNCHANGED <<histVars, base_image, nbuild, base, out, manifest>>

\* pull_base_image: Cache::store_config and the return
StoreBaseConfig ==
    /\ pc = "StoreConfig"
    /\ \E now \in Times, outcome \in StoreOutcomes :
          /\ store_config(base_image, DefaultImageConfig, now, outcome)
          /\ IF outcome = "Ok"
             THEN /\ pc' = "Layers"
                  /\ Ended("base", TRUE)
                  /\ StartTasks
                  /\ pulled' = IF pulled = "no" THEN "this" ELSE pulled
                  /\ reg' = NoPull
                  /\ UNCHANGED <<result, tmp_dir>>
             ELSE Fail("base", "StoreConfig") /\ UNCHANGED <<tasks, pulled, reg>>
    /\ UNCHANGED <<histVars, base_image, nbuild, base, out, manifest>>

\* PythonImageBuilder::verify_layer_digest
verify_layer_digest(layer) ==
    StartsWithSha256(layer.digest) /\ Sha256Digest(layer.data) = layer.digest

\* create_venv_layer, create_deps_layer, create_app_layer up to Layer::from_dir:
\* the commands and the copies, which fill the task's directory or fail.
\* try_join! returns the first error and drops the other two tasks.
TaskRun(t) ==
    /\ pc = "Layers"
    /\ tasks[t].st = "start"
    /\ \/ /\ tasks' = [tasks EXCEPT ![t].st = "ran"]
          /\ UNCHANGED <<pc, trace, result, tmp_dir>>
       \/ Fail("layers", t) /\ UNCHANGED tasks
    /\ UNCHANGED <<cacheVars, histVars, base_image, nbuild, reg, base, out,
                   manifest, pulled>>

\* the rest of a layer build: Layer::from_dir and verify_layer_digest; the
\* task that ends last ends try_join!
TaskPack(t) ==
    /\ pc = "Layers"
    /\ tasks[t].st = "ran"
    /\ \/ \E tree \in Trees(t) :
             LET layer == from_dir(tree)
                 after == [tasks EXCEPT ![t] =
                              [st |-> "done", layer |-> layer,
                               config |-> TaskConfig(t),
                               rank |-> 1 + Cardinality({u \in Tasks :
                                                           tasks[u].st = "done"})]]
             IN IF ~verify_layer_digest(layer)
                THEN Fail("layers", t) /\ UNCHANGED tasks
                ELSE /\ tasks' = after
                     /\ IF \A u \in Tasks : after[u].st = "done"
                        THEN pc' = "Verify" /\ Ended("layers", TRUE)
                        ELSE UNCHANGED <<pc, trace>>
                     /\ UNCHANGED <<result, tmp_dir>>
       \/ Fail("layers", t) /\ UNCHANGED tasks
    /\ UNCHANGED <<cacheVars, histVars, base_image, nbuild, reg, base, out,
                   manifest, pulled>>

\* build going on to generate_config although verify_layers returned an error
VerifyGoesOn ==
    /\ pc = "Verify"
    /\ pc' = "Assemble"
    /\ Ended("verify", verify_layers(BuiltLayers).ok)
    /\ UNCHANGED <<cacheVars, histVars, base_image, nbuild, reg, base, tasks, out,
                   manifest, pulled, result, tmp_dir>>

\* build: verify_layers over base, venv, deps, app
Verify ==
    /\ pc = "Verify"
    /\ LET r == verify_layers(BuiltLayers)
       IN IF r.ok
          THEN /\ pc' = "Assemble"
               /\ Ended("verify", TRUE)
               /\ UNCHANGED <<result, tmp_dir>>
          ELSE Fail("verify", r.err)
    /\ UNCHANGED <<cacheVars, histVars, base_image, nbuild, reg, base, tasks, out,
                   manifest, pulled>>

\* build: generate_config and create_manifest
Assemble ==
    /\ pc = "Assemble"
    /\ LET config == generate_config(ProjectConfig, BuiltConfigs)
       IN manifest' = <<create_manifest(config, BuiltLayers)>>
    /\ pc' = "Write"
    /\ Ended("assemble", TRUE)
    /\ UNCHANGED <<cacheVars, histVars, base_image, nbuild, reg, base, tasks, out,
                   result, tmp_dir, pulled>>

\* the file name of a blob: the hex digits of its digest
BlobName(digest) == TrimSha256(digest)

\* write_image writing manifest.json before the layer blobs
write_image_manifest_first(o, config, m, failAt) ==
    LET n == Len(m.layers)
        did(step) == failAt = 0 \/ step < failAt
        config_json == to_vec_pretty(config)
        config_name == [pfx |-> "", hex |-> Sha256Hex(config_json)]
        names == {config_name : x \in {1} \cap {y \in {1} : did(2)}}
                 \cup {BlobName(m.layers[i].digest) : i \in {j \in 1..n : did(2 + j)}}
    IN [dirs |-> o.dirs \/ did(1),
        blobs |-> [b \in DOMAIN o.blobs \cup names |->
                     IF \E j \in 1..n : did(2 + j) /\ BlobName(m.layers[j].digest) = b
                     THEN m.layers[MaxOf({j \in 1..n :
                              did(2 + j) /\ BlobName(m.layers[j].digest) = b})].data
                     ELSE IF b = config_name /\ did(2) THEN config_json
                     ELSE o.blobs[b]],
        manifest |-> IF did(2) THEN <<m>> ELSE o.manifest,
        layout |-> o.layout \/ did(4 + n)]

\* PythonImageBuilder::write_image on the output directory o: create_dir_all,
\* the config blob, the layer blobs in manifest order, manifest.json,
\* oci-layout. failAt is the write that fails, 0 when none does; the writes
\* before it are done.
write_image(o, config, m, failAt) ==
    LET n == Len(m.layers)
        did(step) == failAt = 0 \/ step < failAt
        config_json == to_vec_pretty(config)
        config_name == [pfx |-> "", hex |-> Sha256Hex(config_json)]
        names == {config_name : x \in {1} \cap {y \in {1} : did(2)}}
                 \cup {BlobName(m.layers[i].digest) : i \in {j \in 1..n : did(2 + j)}}
    IN [dirs |-> o.dirs \/ did(1),
        blobs |-> [b \in DOMAIN o.blobs \cup names |->
                     IF \E j \in 1..n : did(2 + j) /\ BlobName(m.layers[j].digest) = b
                     THEN m.layers[MaxOf({j \in 1..n :
                              did(2 + j) /\ BlobName(m.layers[j].digest) = b})].data
                     ELSE IF b = config_name /\ did(2) THEN config_json
                     ELSE o.blobs[b]],
        manifest |-> IF did(3 + n) THEN <<m>> ELSE o.manifest,
        layout |-> o.layout \/ did(4 + n)]

\* build returning the error of build_dir.close()
WriteCloseFails ==
    /\ pc = "Write"
    /\ \E failAt \in 0..(Len(manifest[1].layers) + 4) :
          /\ out' = write_image(out, manifest[1].config.config, manifest[1], failAt)
          /\ IF failAt = 0
             THEN \/ /\ pc' = "Done"
                     /\ Ended("write", TRUE)
                     /\ result' = OkResult
                     /\ tmp_dir' = "removed"
                  \/ /\ pc' = "Failed"
                     /\ Ended("write", FALSE)
                     /\ result' = [ok |-> FALSE, stage |-> "write", err |-> "Io"]
                     /\ tmp_dir' = "left"
             ELSE Fail("write", "Io")
    /\ UNCHANGED <<cacheVars, histVars, base_image, nbuild, reg, base, tasks,
                   manifest, pulled>>

\* build: write_image, build_dir.close() and the return
Write ==
    /\ pc = "Write"
    /\ \E failAt \in 0..(Len(manifest[1].layers) + 4) :
          /\ out' = write_image(out, manifest[1].config.config, manifest[1], failAt)
          /\ IF failAt = 0
             THEN /\ pc' = "Done"
                  /\ Ended("write", TRUE)
                  /\ result' = OkResult
                  /\ tmp_dir' \in Removal
             ELSE Fail("write", "Io")
    /\ UNCHANGED <<cacheVars, histVars, base_image, nbuild, reg, base, tasks,
                   manifest, pulled>>

BuildNext ==
    \/ StartBuild
    \/ Pull
    \/ AuthProbe
    \/ AuthToken
    \/ FetchManifest
    \/ FetchSpecific
    \/ Download
    \/ StoreBaseLayer
    \/ StoreBaseConfig
    \/ \E t \in Tasks : TaskRun(t)
    \/ \E t \in Tasks : TaskPack(t)
    \/ Verify
    \/ Assemble
    \/ Write

SpecBuild == BuildInit /\ [][BuildNext]_vars

-----------------------------------------------------------------------------
(* verify_layers on any four layers *)

\* layers as the stages before verification can hand them over, and layers
\* they cannot: a digest of other data, a digest another layer holds, a media
\* type outside the list, no bytes, a diff_id without the prefix, an empty
\* diff_id
LayerPool ==
    LET v == from_dir(<<4>>)
        d == from_dir(<<5>>)
        a == from_dir(<<6>>)
        b == combined_layer(<<1>>)
    IN {v, d, a, b,
        [v EXCEPT !.digest = Sha256Digest(<<9>>)],
        [b EXCEPT !.digest = d.digest],
        [d EXCEPT !.media_type = MediaDocker],
        combined_layer(<<>>),
        [a EXCEPT !.diff_id = [pfx |-> "md5:", hex |-> <<3>>]],
        [a EXCEPT !.diff_id = EmptyStr]}

VerifyInit ==
    /\ EmptyCache
    /\ base_image \in {<<"p">>}
    /\ nbuild = 1
    /\ pc = "Verify"
    /\ tmp_dir = "exists"
    /\ reg = NoPull
    /\ base \in [layer : LayerPool, config : {DefaultImageConfig}]
    /\ tasks \in {[t \in Tasks |->
                      [st |-> "done", layer |-> f[t], config |-> TaskConfig(t),
                       rank |-> IndexOf(<<"venv", "deps", "app">>, t)]] :
                   f \in [Tasks -> LayerPool]}
    /\ out = EmptyOut
    /\ manifest = <<>>
    /\ trace = <<[stage |-> "base", ok |-> TRUE], [stage |-> "layers", ok |-> TRUE]>>
    /\ result = NoResult
    /\ pulled = "no"

VerifyNext ==
    \/ Verify
    \/ Assemble
    \/ Write

SpecVerify == VerifyInit /\ [][VerifyNext]_vars

-----------------------------------------------------------------------------
(* generate_config on any four configs *)

\* configs with and without env, cmd, working_dir and entrypoint, two of
\* them with the same env entry, and with two working_dir and two cmd values
ConfigPool ==
    {DefaultImageConfig, ProjectConfig, venv_config, deps_config,
     [env |-> <<"A=1">>, cmd |-> <<>>, working_dir |-> "x", entrypoint |-> <<"x">>],
     [env |-> <<"B=2", "A=1">>, cmd |-> <<"python">>, working_dir |-> "/app",
      entrypoint |-> <<"x", "x">>]}

\* build after verify_layers returned Ok, with any four configs
ConfigInit ==
    /\ EmptyCache
    /\ base_image \in {<<"p">>}
    /\ nbuild = 1
    /\ pc = "Assemble"
    /\ tmp_dir = "exists"
    /\ reg = NoPull
    /\ base \in [layer : {combined_layer(<<1>>)}, config : ConfigPool]
    /\ tasks \in {[t \in Tasks |->
                      [st |-> "done", layer |-> from_dir(<<IndexOf(<<"venv", "deps", "app">>, t)>>),
                       config |-> f[t],
                       rank |-> IndexOf(<<"venv", "deps", "app">>, t)]] :
                   f \in [Tasks -> ConfigPool]}
    /\ out = EmptyOut
    /\ manifest = <<>>
    /\ trace = <<[stage |-> "base", ok |-> TRUE], [stage |-> "layers", ok |-> TRUE],
                 [stage |-> "verify", ok |-> TRUE]>>
    /\ result = NoResult
    /\ pulled = "no"

ConfigNext ==
    \/ Assemble
    \/ Write

SpecConfig == ConfigInit /\ [][ConfigNext]_vars

\* C14: the merged config has for env the env of base, venv, deps and app in
\* that order, nothing dropped, then PYTHONUNBUFFERED=1,
\* PYTHONDONTWRITEBYTECODE=1 and PYTHONPATH=/app/deps:/app, and for entrypoint
\* the three-element shell wrapper that activates /venv and runs the script
\* of the builder's own config, whatever entrypoints the four configs hold
C14_MergedConfig ==
    LET expected_env ==
            base.config.env \o tasks["venv"].config.env \o tasks["deps"].config.env
            \o tasks["app"].config.env
            \o <<"PYTHONUNBUFFERED=1", "PYTHONDONTWRITEBYTECODE=1",
                 "PYTHONPATH=/app/deps:/app">>
        wrapper ==
            <<"/bin/sh", "-c",
              <<"source /venv/bin/activate && python /app/">> \o ProjectConfig.entrypoint>>
    IN /\ generate_config(ProjectConfig, BuiltConfigs).env = expected_env
       /\ generate_config(ProjectConfig, BuiltConfigs).entrypoint = wrapper
       /\ manifest # <<>> =>
             /\ manifest[1].config.config.env = expected_env
             /\ manifest[1].config.config.entrypoint = wrapper

C14_Witness ==
    /\ manifest # <<>>
    /\ base.config.env = <<"A=1">>
    /\ tasks["venv"].config.env = <<"B=2", "A=1">>
    /\ tasks["app"].config.entrypoint = <<"x">>
    /\ tasks["deps"].config.env = <<>>
    /\ manifest[1].config.config.env =
          <<"A=1", "B=2", "A=1", "A=1", "PYTHONUNBUFFERED=1",
            "PYTHONDONTWRITEBYTECODE=1", "PYTHONPATH=/app/deps:/app">>

\* the field of the last config that holds another value than empty, as an
\* Option: <<>> when there is none
RECURSIVE LastNonEmpty(_, _, _)
LastNonEmpty(configs, field, empty) ==
    IF configs = <<>> THEN <<>>
    ELSE IF configs[Len(configs)][field] # empty
    THEN <<configs[Len(configs)][field]>>
    ELSE LastNonEmpty(SubSeqFrom(configs, 1, Len(configs) - 1), field, empty)

\* C22: the merged config has for working_dir and for cmd the value of the
\* last of base, venv, deps, app that holds a non-empty one, and none when
\* all four are empty; an empty value of a later config erases nothing
C22_LastNonEmptyWins ==
    LET merged == generate_config(ProjectConfig, BuiltConfigs)
    IN /\ merged.working_dir = LastNonEmpty(BuiltConfigs, "working_dir", "")
       /\ merged.cmd = LastNonEmpty(BuiltConfigs, "cmd", <<>>)
       /\ manifest # <<>> =>
             /\ manifest[1].config.config.working_dir
                   = LastNonEmpty(BuiltConfigs, "working_dir", "")
             /\ manifest[1].config.config.cmd = LastNonEmpty(BuiltConfigs, "cmd", <<>>)

C22_Witness ==
    /\ manifest # <<>>
    /\ base.config.working_dir = "x" /\ base.config.cmd = <<>>
    /\ tasks["venv"].config.working_dir = "/app"
    /\ tasks["venv"].config.cmd = <<"python", "main.py">>
    /\ tasks["deps"].config.working_dir = "/app"
    /\ tasks["deps"].config.cmd = <<"python">>
    /\ tasks["app"].config.working_dir = "" /\ tasks["app"].config.cmd = <<>>
    /\ manifest[1].config.config.working_dir = <<"/app">>
    /\ manifest[1].config.config.cmd = <<(<<"python">>)>>

\* C33: whatever write_image has written, and also when it failed part-way,
\* an output directory that holds oci-layout holds manifest.json, and one that
\* holds manifest.json holds the blob of each of the four layers the manifest
\* lists.
C33_WriteOrder ==
    /\ out.layout => out.manifest # <<>>
    /\ out.manifest # <<>> =>
          /\ Len(out.manifest[1].layers) = Len(BuiltLayers)
          /\ \A i \in 1..Len(out.manifest[1].layers) :
                BlobName(out.manifest[1].layers[i].digest) \in DOMAIN out.blobs

\* write_image failed at its last write: manifest.json and the blobs are
\* there, oci-layout is not
C33_Witness ==
    /\ pc = "Failed" /\ result.stage = "write"
    /\ out.manifest # <<>> /\ ~out.layout
    /\ \A i \in 1..Len(manifest[1].layers) :
          BlobName(manifest[1].layers[i].digest) \in DOMAIN out.blobs

\* C28: when build has returned Ok, every digest of the written manifest names
\* a blob of the output directory: the config digest names a file of
\* blobs/sha256 whose bytes have that sha256, and so does each layer digest.
C28_DigestsResolve ==
    (pc = "Done" /\ result = OkResult) =>
        /\ BlobName(manifest[1].config.digest) \in DOMAIN out.blobs
        /\ Sha256Digest(out.blobs[BlobName(manifest[1].config.digest)])
              = manifest[1].config.digest
        /\ \A i \in 1..Len(manifest[1].layers) :
              BlobName(manifest[1].layers[i].digest) \in DOMAIN out.blobs

-----------------------------------------------------------------------------
(* Layer::from_dir on two directories of the same content *)

\* the files a directory can hold, each a relative path with its bytes
Files == 5..(4 + MaxFiles)

\* the modification times a file can have
MTimes == {0, 1}

\* the orders in which WalkDir can yield the files of a directory: it is
\* given no sort_by, so the order is that of read_dir
WalkOrders(dir) ==
    {order \in [1..Cardinality(dir) -> dir] :
        \A i, j \in 1..Cardinality(dir) : order[i] = order[j] => i = j}

\* tar::Builder::append_path_with_name for the files in the order of the
\* walk: for each file a header, which holds the metadata of the file, its
\* modification time among it, and then the content
TarEntries(order, mtime) ==
    [i \in 1..(2 * Len(order)) |->
        IF i % 2 = 1 THEN mtime[order[(i + 1) \div 2]] ELSE order[i \div 2]]

\* the entry sequences from_dir can hand to the archive for one directory
Walks(dir) ==
    {TarEntries(order, mtime) : order \in WalkOrders(dir), mtime \in [dir -> MTimes]}

\* two directories of the same content, each about to be packed
FromDirInit ==
    /\ EmptyCache
    /\ base_image = <<>>
    /\ nbuild = 0
    /\ pc = "Idle"
    /\ tmp_dir = "none"
    /\ reg = NoPull
    /\ base = NoBase
    /\ tasks \in {[c \in {"one", "two"} |-> [st |-> "dir", dir |-> d, layer |-> NoLayer]] :
                   d \in SUBSET Files}
    /\ out = EmptyOut
    /\ manifest = <<>>
    /\ trace = <<>>
    /\ result = NoResult
    /\ pulled = "no"

\* one call of Layer::from_dir: the walk, the archive, the Layer; or the
\* error of the walk or of the archive
FromDir(c) ==
    /\ tasks[c].st = "dir"
    /\ \/ \E walk \in Walks(tasks[c].dir) :
             tasks' = [tasks EXCEPT ![c].st = "done", ![c].layer = from_dir(walk)]
       \/ tasks' = [tasks EXCEPT ![c].st = "err"]
    /\ UNCHANGED <<cacheVars, histVars, base_image, nbuild, pc, tmp_dir, reg, base,
                   out, manifest, trace, result, pulled>>

FromDirNext == \E c \in {"one", "two"} : FromDir(c)

SpecFromDir == FromDirInit /\ [][FromDirNext]_vars

\* C15: two calls of from_dir on directories with the same files and the
\* same bytes return Layers of equal digest and equal diff_id, whatever the
\* order of enumeration and the modification times
C15_SameTreeSameDigest ==
    tasks["one"].st = "done" /\ tasks["two"].st = "done" =>
       /\ tasks["one"].layer.digest = tasks["two"].layer.digest
       /\ tasks["one"].layer.diff_id = tasks["two"].layer.diff_id

-----------------------------------------------------------------------------
(* pull_base_image on a cache directory in any condition *)

\* a base layer an earlier run cached, and its index entry
CachedBase == combined_layer(<<1>>)

CachedEntry ==
    [digest |-> CachedBase.digest, path |-> LayerPath(CacheDir, CachedBase.digest),
     timestamp |-> 0, metadata |-> BaseMetadata(CachedBase)]

\* what the path of the entry can hold when the builder starts: nothing, the
\* file store_layer wrote, bytes that have the digest of the entry and are no
\* Layer, other bytes
ArtifactFiles ==
    {EmptyFn} \cup
    {[p \in {CachedEntry.path} |-> bytes] :
        bytes \in {SerializeLayer(CachedBase), CachedBase.data, <<9, 9>>}}

PullInit ==
    /\ base_image \in BaseRefs
    /\ cache_dir = CacheDir
    /\ layer_index \in {EmptyFn, [k \in {base_image} |-> CachedEntry]}
    /\ config_index = EmptyFn
    /\ binFiles \in ArtifactFiles
    /\ jsonFiles = EmptyFn
    /\ indexFiles = [d \in {CacheDir} |->
                        PersistedCache(CacheDir, layer_index, config_index)]
    /\ last = NoCall
    /\ ncalls = 0
    /\ nbuild = 1
    /\ pc = "Pull"
    /\ tmp_dir = "exists"
    /\ reg = NoPull
    /\ base = NoBase
    /\ tasks = EmptyFn
    /\ out = EmptyOut
    /\ manifest = <<>>
    /\ trace = <<>>
    /\ result = NoResult
    /\ pulled = "no"

PullNext ==
    \/ Pull
    \/ AuthProbe
    \/ AuthToken
    \/ FetchManifest
    \/ FetchSpecific
    \/ Download
    \/ StoreBaseLayer
    \/ StoreBaseConfig

SpecPull == PullInit /\ [][PullNext]_vars

-----------------------------------------------------------------------------
(* download_and_process_layers on a manifest of any length *)

\* pull_base_image of a builder with an empty cache, after fetch_manifest
\* returned a schema-2 manifest that lists any number of layers
DownloadInit ==
    /\ EmptyCache
    /\ base_image \in {<<"p">>}
    /\ nbuild = 1
    /\ pc = "Download"
    /\ tmp_dir = "exists"
    /\ reg \in {[NoPull EXCEPT !.ref = parse_image_reference(base_image),
                               !.nreq = 2, !.mreq = 1, !.probe = "200",
                               !.first = "Manifest", !.blobs = n] :
                 n \in 0..MaxLayers}
    /\ base = NoBase
    /\ tasks = EmptyFn
    /\ out = EmptyOut
    /\ manifest = <<>>
    /\ trace = <<>>
    /\ result = NoResult
    /\ pulled = "no"

DownloadNext ==
    \/ Download
    \/ StoreBaseLayer
    \/ StoreBaseConfig

SpecDownload == DownloadInit /\ [][DownloadNext]_vars

\* the bytes of the responses one after the other, in the order of the
\* manifest
RECURSIVE InManifestOrder(_)
InManifestOrder(parts) ==
    IF parts = <<>> THEN <<>>
    ELSE LET first == CHOOSE i \in 1..Len(parts) :
                         \A j \in 1..Len(parts) : parts[i].blob <= parts[j].blob
         IN parts[first].bytes
            \o InManifestOrder([i \in 1..(Len(parts) - 1) |->
                                   IF i < first THEN parts[i] ELSE parts[i + 1]])

\* C21: the blobs are requested one at a time in the order of the manifest;
\* the Layer has for data the blob bytes concatenated in that order and for
\* digest the sha256 of the concatenation; when a blob request fails no Layer
\* is produced and nothing is stored in the cache
C21_BlobsInOrder ==
    /\ \A i \in 1..Len(reg.parts) : reg.parts[i].blob = i
    /\ pc \in {"Download", "StoreConfig"} =>
          /\ reg.nreq = 2 + Len(reg.parts)
          /\ reg.data = InManifestOrder(reg.parts)
    /\ pc = "Download" =>
          /\ base = NoBase
          /\ layer_index = EmptyFn /\ binFiles = EmptyFn /\ indexFiles = EmptyFn
    /\ pc = "StoreConfig" =>
          /\ reg.blobs = 0
          /\ base.layer.data = InManifestOrder(reg.parts)
          /\ base.layer.digest = Sha256Digest(InManifestOrder(reg.parts))
          /\ base.layer.size = Len(base.layer.data)
    /\ result.err = "Download" =>
          /\ pc = "Failed"
          /\ reg.blobs > 0
          /\ reg.nreq = 3 + Len(reg.parts)
          /\ base = NoBase
          /\ layer_index = EmptyFn /\ config_index = EmptyFn
          /\ binFiles = EmptyFn /\ jsonFiles = EmptyFn /\ indexFiles = EmptyFn

C21_Witness ==
    /\ pc = "StoreConfig"
    /\ Len(reg.parts) = 3
    /\ reg.parts[1].bytes = Gzip(<<1>>)
    /\ reg.parts[2].bytes = <<>>
    /\ reg.parts[3].bytes = Gzip(<<3>>)
    /\ base.layer.data = Gzip(<<1>>) \o Gzip(<<3>>)

-----------------------------------------------------------------------------
(* parse_image_reference on any reference *)

\* the characters of a reference: a name, and the three the code looks for
RefChars == {"n", ".", ":", "/"}

References == UNION {[1..n -> RefChars] : n \in 0..MaxRefLen}

\* pull_base_image of a builder whose base_image is any text: with nothing
\* cached it hands base_image to parse_image_reference
ParseInit ==
    /\ EmptyCache
    /\ base_image \in References
    /\ nbuild = 1
    /\ pc = "Pull"
    /\ tmp_dir = "exists"
    /\ reg = NoPull
    /\ base = NoBase
    /\ tasks = EmptyFn
    /\ out = EmptyOut
    /\ manifest = <<>>
    /\ trace = <<>>
    /\ result = NoResult
    /\ pulled = "no"

ParseNext ==
    \/ Pull
    \/ AuthProbe

SpecParse == ParseInit /\ [][ParseNext]_vars

-----------------------------------------------------------------------------
(* PythonImageBuilder::new on any reference *)

\* main before PythonImageBuilder::new, with any text for the base image
NewInit ==
    /\ EmptyCache
    /\ base_image \in References
    /\ nbuild = 0
    /\ pc = "Idle"
    /\ tmp_dir = "none"
    /\ reg = NoPull
    /\ base = NoBase
    /\ tasks = EmptyFn
    /\ out = EmptyOut
    /\ manifest = <<>>
    /\ trace = <<>>
    /\ result = NoResult
    /\ pulled = "no"

NewNext ==
    \/ StartBuild
    \/ Pull

SpecNew == NewInit /\ [][NewNext]_vars

\* C29: PythonImageBuilder::new returns Ok for every non-empty base image that
\* parse_image_reference accepts, references of two and of three segments
\* included.
C29_NewAcceptsParsable ==
    (nbuild > 0 /\ base_image # <<>> /\ parse_image_reference(base_image).ok)
        => ~(pc = "Failed" /\ result.stage = "new")

-----------------------------------------------------------------------------
(* Claims about parse_image_reference *)

\* the positions of c in s
Positions(s, c) == {i \in 1..Len(s) : s[i] = c}

\* the text of s after its last '/', and the texts between its '/'
LastSegment(s) ==
    IF Positions(s, "/") = {} THEN s
    ELSE SubSeqFrom(s, MaxOf(Positions(s, "/")) + 1, Len(s) - MaxOf(Positions(s, "/")))

FirstSegment(s) == SubSeqFrom(s, 1, MinOf(Positions(s, "/")) - 1)

MiddleSegment(s) ==
    SubSeqFrom(s, MinOf(Positions(s, "/")) + 1,
               MaxOf(Positions(s, "/")) - MinOf(Positions(s, "/")) - 1)

\* name[:tag]
NameOf(seg) ==
    IF Positions(seg, ":") = {} THEN seg
    ELSE SubSeqFrom(seg, 1, MinOf(Positions(seg, ":")) - 1)

TagOf(seg) ==
    IF Positions(seg, ":") = {} THEN <<"latest">>
    ELSE SubSeqFrom(seg, MinOf(Positions(seg, ":")) + 1,
                    Len(seg) - MinOf(Positions(seg, ":")))

\* the (registry, repository, tag) the claim gives a reference of one to
\* three segments
Expected(s) ==
    LET n == Cardinality(Positions(s, "/")) + 1
        name == NameOf(LastSegment(s))
    IN [ok |-> TRUE,
        registry |->
            IF n = 1 THEN <<"registry-1.docker.io">>
            ELSE IF n = 2 /\ Positions(FirstSegment(s), ".") = {}
                          /\ Positions(FirstSegment(s), ":") = {}
            THEN <<"registry-1.docker.io">>
            ELSE FirstSegment(s),
        repository |->
            IF n = 1 THEN <<"library", "/">> \o name
            ELSE IF n = 2 /\ Positions(FirstSegment(s), ".") = {}
                          /\ Positions(FirstSegment(s), ":") = {}
            THEN FirstSegment(s) \o <<"/">> \o name
            ELSE IF n = 2 THEN name
            ELSE MiddleSegment(s) \o <<"/">> \o name,
        tag |-> TagOf(LastSegment(s))]

WellFormed(s) ==
    /\ Cardinality(Positions(s, "/")) <= 2
    /\ Cardinality(Positions(LastSegment(s), ":")) <= 1

\* C12: a reference of one to three segments with at most one ':' in the
\* last is parsed to (registry-1.docker.io, library/name, tag), to
\* (a, b, tag) or (registry-1.docker.io, a/b, tag) as a contains '.' or ':'
\* or not, or to (r, ns/b, tag); the tag is "latest" when there is none
C12_ParseMapping ==
    WellFormed(base_image) =>
       /\ parse_image_reference(base_image) = Expected(base_image)
       /\ pc # "Pull" =>
             reg.ref = Expected(base_image) /\ result.err # "InvalidReference"

C12_Witness ==
    /\ pc = "AuthProbe"
    /\ Cardinality(Positions(base_image, "/")) = 2
    /\ Len(FirstSegment(base_image)) = 1
    /\ Len(MiddleSegment(base_image)) = 1
    /\ reg.ref.tag = <<"n">>
    /\ reg.ref.repository = <<"n", "/", "n">>

\* C13: a reference of four or more segments, or with more than one ':' in
\* its last segment, makes parse_image_reference return an error, and no
\* request goes to the registry
C13_ParseRejects ==
    ~WellFormed(base_image) =>
       /\ ~parse_image_reference(base_image).ok
       /\ reg.nreq = 0
       /\ pc # "Pull" =>
             /\ pc = "Failed"
             /\ result.err = "InvalidReference"
             /\ ~reg.ref.ok

C13_Witness ==
    /\ pc = "Failed"
    /\ Cardinality(Positions(base_image, "/")) <= 2
    /\ Cardinality(Positions(LastSegment(base_image), ":")) = 2
    /\ reg.nreq = 0

-----------------------------------------------------------------------------
(* Claims about pull_base_image *)

\* the index names the key and the file of the entry is missing, has another
\* digest than the entry, or is no Layer
BadArtifact(key) ==
    /\ key \in DOMAIN layer_index
    /\ LET entry == layer_index[key]
       IN \/ entry.path \notin DOMAIN binFiles
          \/ Sha256Digest(binFiles[entry.path]) # entry.digest
          \/ DeserializeLayer(binFiles[entry.path]) = NoLayer

\* C11: when the cached artifact of the base image is missing, has the wrong
\* digest or does not deserialize, get_layer returns None, no file and no
\* index changes, and pull_base_image goes on to parse the reference and to
\* the registry as it does for a key that was never cached
C11_BadArtifactIsMiss ==
    [][pc = "Pull" /\ BadArtifact(base_image) =>
         /\ get_layer(base_image) = NoLayer
         /\ cacheVars' = cacheVars
         /\ base' = base
         /\ reg' = [reg EXCEPT !.ref = parse_image_reference(base_image)]
         /\ IF parse_image_reference(base_image).ok
            THEN pc' = "AuthProbe" /\ result' = result /\ trace' = trace
            ELSE pc' = "Failed" /\ result'.err = "InvalidReference"]_vars

C11_Witness ==
    /\ pc = "AuthProbe"
    /\ BadArtifact(base_image)
    /\ layer_index[base_image].path \in DOMAIN binFiles
    /\ Sha256Digest(binFiles[layer_index[base_image].path]) = layer_index[base_image].digest
    /\ reg.ref.ok

\* C26: after a miss and a pull that succeeded, pull_base_image stores the
\* layer and then a default ImageConfig under the base-image key: when it
\* returns Ok both indexes hold an entry for the key, with the files behind
\* them; when one of the two stores fails it returns the error and build
\* starts no layer task
C26_PulledIsStored ==
    /\ pc = "Layers" /\ pulled = "this" =>
          /\ base_image \in DOMAIN layer_index
          /\ layer_index[base_image].digest = base.layer.digest
          /\ layer_index[base_image].path \in DOMAIN binFiles
          /\ binFiles[layer_index[base_image].path] = SerializeLayer(base.layer)
          /\ base_image \in DOMAIN config_index
          /\ config_index[base_image].path \in DOMAIN jsonFiles
          /\ jsonFiles[config_index[base_image].path] = DefaultImageConfig
          /\ base.config = DefaultImageConfig
          /\ Persisted.layer_index = layer_index
          /\ Persisted.config_index = config_index
    /\ pc = "StoreConfig" =>
          /\ base_image \in DOMAIN layer_index
          /\ layer_index[base_image].digest = base.layer.digest
          /\ base_image \notin DOMAIN config_index
    /\ pc \in {"AuthProbe", "AuthToken", "FetchManifest", "FetchSpecific", "Download"} =>
          /\ base = NoBase
          /\ jsonFiles = EmptyFn /\ config_index = EmptyFn
    /\ result.err \in {"StoreLayer", "StoreConfig"} =>
          /\ pc = "Failed"
          /\ result.stage = "base"
          /\ tasks = EmptyFn
    /\ result.err = "StoreLayer" =>
          base = NoBase /\ base_image \notin DOMAIN config_index
    /\ result.err = "StoreConfig" => base_image \in DOMAIN layer_index

C26_Witness ==
    /\ pc = "Layers"
    /\ pulled = "this"
    /\ reg = NoPull
    /\ base.layer = combined_layer(Gzip(<<1>>))
    /\ layer_index[base_image].digest = base.layer.digest
    /\ base_image \in DOMAIN config_index

\* C30: after any build, with Ok or with an error, the layer the cache
\* directory holds for the base-image key is one that verify_single_layer
\* accepts.
C30_CachedBaseVerifies ==
    (/\ pc \in {"Done", "Failed"}
     /\ base_image \in DOMAIN Persisted.layer_index
     /\ Persisted.layer_index[base_image].path \in DOMAIN binFiles)
    => verify_single_layer(
          DeserializeLayer(binFiles[Persisted.layer_index[base_image].path])) = "Ok"

-----------------------------------------------------------------------------
(* Claims about build *)

\* C2: a build after one whose base-image pull succeeded, on the same cache
\* directory and with the same base image, sends no request to the registry
C2_SecondBuildNoRequests == pulled = "before" => reg.nreq = 0

\* C3: when build returns Ok, manifest.json holds schema version 2 and four
\* layer descriptors in the order base, venv, deps, app, and every file
\* under blobs/sha256 is named by the sha256 of its content
C3_OkImage ==
    pc = "Done" =>
       /\ out.manifest # <<>>
       /\ out.manifest[1].schema_version = 2
       /\ Len(out.manifest[1].layers) = Len(BuiltLayers)
       /\ \A i \in 1..Len(BuiltLayers) :
             out.manifest[1].layers[i].digest = BuiltLayers[i].digest
       /\ \A b \in DOMAIN out.blobs :
             b = [pfx |-> "", hex |-> Sha256Hex(out.blobs[b])]

C3_Witness ==
    /\ pc = "Done"
    /\ result.ok
    /\ out.layout
    /\ Cardinality(DOMAIN out.blobs) = Len(BuiltLayers) + 1

NothingWritten == out.blobs = EmptyFn /\ out.manifest = <<>> /\ ~out.layout

AllWritten ==
    /\ out.layout
    /\ out.manifest # <<>>
    /\ manifest # <<>>
    /\ \A i \in 1..Len(manifest[1].layers) :
          BlobName(manifest[1].layers[i].digest) \in DOMAIN out.blobs

\* C4: when build returns an error, the output directory holds either none
\* of oci-layout, manifest.json and the blobs, or all of them
C4_NoPartialLayout == pc = "Failed" => NothingWritten \/ AllWritten

StageOrder == <<"base", "layers", "verify", "assemble", "write">>

\* the number of stages that ended well when build is at pc
StagesDone ==
    CASE pc \in {"Pull", "AuthProbe", "AuthToken", "FetchManifest", "FetchSpecific",
                 "Download", "StoreConfig"} -> 0
      [] pc = "Layers" -> 1
      [] pc = "Verify" -> 2
      [] pc = "Assemble" -> 3
      [] pc = "Write" -> 4
      [] pc = "Done" -> 5
      [] OTHER -> Len(trace) - 1

C5_Order ==
    /\ Len(trace) <= Len(StageOrder)
    /\ \A i \in DOMAIN trace :
          /\ i < Len(trace) => trace[i].ok
          /\ \/ trace[i].stage = StageOrder[i]
             \/ i = 1 /\ trace[i].stage = "init" /\ ~trace[i].ok
    /\ pc \notin {"Idle", "Failed"} =>
          /\ Len(trace) = StagesDone
          /\ \A i \in DOMAIN trace : trace[i].ok
    /\ pc = "Done" => result = OkResult
    /\ pc = "Failed" /\ trace # <<>> =>
          /\ ~trace[Len(trace)].ok
          /\ ~result.ok
          /\ result.stage = trace[Len(trace)].stage
    /\ manifest # <<>> => Len(trace) >= 4
    /\ out # EmptyOut => Len(trace) = Len(StageOrder)

\* C5: the stages of build end in the order base, layers, verify, assemble,
\* write, each begun only when the one before ended well; when a stage fails
\* build returns its error and does nothing more, and nothing is written
\* under the output path unless the four stages before the write ended well
C5_StagesInOrder ==
    /\ []C5_Order
    /\ [][pc = "Failed" /\ nbuild' = nbuild =>
            /\ out' = out
            /\ trace' = trace
            /\ result' = result
            /\ manifest' = manifest
            /\ cacheVars' = cacheVars
            /\ reg' = reg]_vars

C5_Witness ==
    /\ pc = "Failed"
    /\ result.stage = "verify"
    /\ Len(trace) = 3
    /\ out = EmptyOut

Mismatched(layers) ==
    {i \in 1..Len(layers) : layers[i].digest # Sha256Digest(layers[i].data)}

\* C6: verify_layers returns an error when the digest of some layer is not
\* "sha256:" and the hex sha256 of its data, so that no such layer is in a
\* manifest or in a blob file
C6_MismatchRejected ==
    /\ Mismatched(BuiltLayers) # {} => ~verify_layers(BuiltLayers).ok
    /\ pc \in {"Assemble", "Write", "Done"} => Mismatched(BuiltLayers) = {}
    /\ manifest # <<>> \/ out # EmptyOut => Mismatched(BuiltLayers) = {}

C6_Witness ==
    /\ pc = "Failed"
    /\ result.err = "DigestMismatch"
    /\ Mismatched(BuiltLayers) # {}
    /\ out = EmptyOut

\* C7: verify_layers returns an error when two layers have the same digest,
\* whether or not the layers are valid one by one, and it is the error of
\* the duplicate check, which comes before the checks of the single layers
C7_DuplicateRejected ==
    Duplicates(BuiltLayers) # {} =>
       /\ ~verify_layers(BuiltLayers).ok
       /\ verify_layers(BuiltLayers).err = "Duplicate"
       /\ pc # "Verify" => pc = "Failed" /\ result.err = "Duplicate"

C7_Witness ==
    /\ pc = "Failed"
    /\ result.err = "Duplicate"
    /\ Duplicates(BuiltLayers) # {}
    /\ Rejected(BuiltLayers) # {}

\* a digest string of the form "sha256:<hex>"
Sha256Form(d) == d.pfx = "sha256:" /\ d.hex # <<>>

\* C23: verify_layers returns an error when some layer has a diff_id that is
\* not of the form "sha256:<hex>", the empty diff_id included, a media type
\* outside the two OCI layer types, or the size zero: build goes no further
\* than verification with such a layer
C23_MalformedRejected ==
    (\E i \in 1..Len(BuiltLayers) :
        \/ ~Sha256Form(BuiltLayers[i].diff_id)
        \/ ~is_valid_media_type(BuiltLayers[i].media_type)
        \/ BuiltLayers[i].size = 0)
    => \/ pc = "Verify"
       \/ pc = "Failed" /\ result.stage = "verify"

\* the uncompressed bytes of a zstd frame or of gzip streams
Decompress(data) ==
    IF Len(data) >= 2 /\ data[1] = ZstdMagic /\ data[2] = ZstdLevel
    THEN SubSeqFrom(data, 3, Len(data) - 2)
    ELSE SelectSeq(data, LAMBDA b : b # GzipMagic)

\* the Layers the build has constructed
Constructed ==
    ({base.layer} \cup {tasks[t].layer : t \in DOMAIN tasks}) \ {NoLayer}

\* C16: every Layer from_dir or download_and_process_layers constructs has
\* for digest the sha256 of its data, the compressed bytes, and for diff_id
\* the sha256 of the uncompressed bytes
C16_DigestAndDiffId ==
    \A l \in Constructed :
       /\ l.digest = Sha256Digest(l.data)
       /\ l.diff_id = Sha256Digest(Decompress(l.data))

\* C17: verification begins only when the venv, deps and app tasks have all
\* returned Ok; when one fails, build returns the error with nothing
\* verified, assembled or written; and the manifest lists the layers of
\* venv, deps and app after base in that order, whatever the order in which
\* the tasks completed
C17_TasksJoined ==
    /\ pc \in {"Verify", "Assemble", "Write", "Done"} =>
          \A t \in Tasks : tasks[t].st = "done"
    /\ pc = "Failed" /\ result.stage = "layers" =>
          /\ \E t \in Tasks : tasks[t].st # "done"
          /\ trace = <<[stage |-> "base", ok |-> TRUE], [stage |-> "layers", ok |-> FALSE]>>
          /\ manifest = <<>>
          /\ out = EmptyOut
    /\ manifest # <<>> =>
          /\ manifest[1].layers[1].digest = base.layer.digest
          /\ manifest[1].layers[2].digest = tasks["venv"].layer.digest
          /\ manifest[1].layers[3].digest = tasks["deps"].layer.digest
          /\ manifest[1].layers[4].digest = tasks["app"].layer.digest
    /\ out.manifest # <<>> => out.manifest = manifest

C17_Witness ==
    /\ pc = "Done"
    /\ tasks["app"].rank = 1
    /\ tasks["deps"].rank = 2
    /\ tasks["venv"].rank = 3
    /\ out.manifest # <<>>

\* C18: the token endpoint is asked exactly when the anonymous probe was
\* answered 401; after any other status the token is empty and the probe was
\* the only request; after a 401 the token is that of a 2xx token response,
\* and any other token response is an error
C18_TokenOnlyAfter401 ==
    /\ reg.treq > 0 => reg.probe = "401"
    /\ reg.probe = "401" => pc = "AuthToken" \/ reg.treq = 1
    /\ reg.probe \in {"200", "404", "500"} =>
          /\ reg.treq = 0
          /\ reg.token = ""
          /\ pc \notin {"AuthToken", "AuthProbe"}
          /\ pc = "FetchManifest" => reg.nreq = 1
    /\ reg.probe = "401" /\ pc = "FetchManifest" => reg.token = "t" /\ reg.nreq = 2
    /\ reg.treq = 1 /\ reg.token = "" =>
          pc = "Failed" /\ result.err = "Authenticate" /\ reg.nreq = 2

C18_Witness ==
    /\ pc = "Download"
    /\ reg.probe = "404"
    /\ reg.treq = 0
    /\ reg.token = ""

\* C19: when the first manifest response is an OCI image index or a Docker
\* manifest list, fetch_manifest selects the entry of the platform and
\* fetches it by digest
C19_MultiArchResolved ==
    reg.first \in {"Index", "List"} /\ Selectable(reg.index) # {} =>
       pc = "FetchSpecific"

\* the entries of the host's platform (ARCH is x86_64, mapped to amd64) that
\* are no attestations
OfHostPlatform(e) == e.architecture = "amd64" /\ e.os = "linux" /\ ~e.attestation

\* C20: the index entry fetched by digest has the mapped host architecture,
\* the os linux and no attestation annotation; when the index has no such
\* entry fetch_manifest fails, the first manifest request stays the only one
\* and no blob is downloaded
C20_SelectedEntry ==
    /\ pc = "FetchSpecific" =>
          /\ reg.want \in 1..Len(reg.index)
          /\ OfHostPlatform(reg.index[reg.want])
    /\ reg.fetched # NoEntry => OfHostPlatform(reg.fetched)
    /\ /\ reg.first = "Index"
       /\ reg.fetched = NoEntry
       /\ ~ \E i \in 1..Len(reg.index) : OfHostPlatform(reg.index[i])
       => /\ pc = "Failed"
          /\ reg.mreq = 1
          /\ reg.blobs = 0
          /\ reg.data = <<>>

C20_Witness ==
    /\ pc = "Download"
    /\ reg.first = "Index"
    /\ reg.fetched.digest = 2
    /\ reg.mreq = 2

====
